---- MODULE Spec2Model ----
(***************************************************************************)
(* Repository layer of starlite-saqlalchemy: the in-memory repository      *)
(* (testing/generic_mock_repository.py) and the SQLAlchemy repository      *)
(* (repository/sqlalchemy.py) over one unit of work, with the ORM bases of *)
(* db/orm.py.                                                              *)
(*                                                                         *)
(* Entities are Python objects: heap[o] is the object with identity o,     *)
(* heap[o].cls its model type and heap[o].d its instance __dict__ (a       *)
(* function from attribute names to values).  An attribute that was never  *)
(* set is not in the __dict__; reading it yields None.                     *)
(***************************************************************************)
EXTENDS Integers, Sequences, FiniteSets, TLC

\* ---------------------------------------------------------------- bounds
MaxObjs == 2
MaxCallerId == 1
MaxName == 2
MaxClock == 2
MaxIds == 1
MaxRows == 2
MaxFilters == 1
MaxOrdered == 3
MaxProcs == 2
MaxClasses == 2
MaxQueue == 2
MaxTypes == 3
MaxDicts == 3
MaxRepos == 1

\* ---------------------------------------------------------------- values
\* Python's None / SQL NULL.
None == -1
CallerIds == 1..MaxCallerId
Names == 1..MaxName

ModelTypes == {"AuditBase", "Base"}
HasAudit(cls) == cls = "AuditBase"

EmptyMap == [k \in {} |-> None]
Put(m, k, v) == [x \in (DOMAIN m) \cup {k} |-> IF x = k THEN v ELSE m[x]]
Del(m, k) == [x \in (DOMAIN m) \ {k} |-> m[x]]

VARIABLES
    backing,      \* which repository the service is wired to: "mem" or "sql"
    model_type,   \* the repository's model_type
    heap,         \* sequence of entity objects, heap[o] = [cls, d]
    collection,   \* in-memory: model type -> (key -> object identity)
    table,        \* SQL: model type -> (primary key -> row)
    attached,     \* SQL: objects attached to the session when an operation ends
    calls,        \* SQL: session methods called by the last operation
    clock,        \* the latest value datetime.now() has returned
    ids,          \* how many identifiers uuid4 has produced
    last          \* the last operation: name, arguments, outcome, result

vars == <<backing, model_type, heap, collection, table, attached, calls, clock, ids, last>>

\* The state of the processes beyond one repository and its store.
VARIABLES
    services,     \* per process: constants.SERVICE_OBJECT_IDENTITY_MAP, identity -> class
    classes,      \* per process: the service classes defined so far, in order
    queue,        \* the background tasks enqueued and not yet dispatched
    types,        \* the in-memory repository classes created so far
    dicts,        \* the dict objects made for their `collection` attributes
    entity,       \* the declared fields of the entity type schemas are derived from
    schemas,      \* the derived schemas, by (purpose, exclusion set)
    repos,        \* the repository instances that have a `collection` of their own
    txn           \* the SQL update a caller has begun and not finished

pvars == <<services, classes, queue, types, dicts, entity, schemas, repos, txn>>

Objs == 1..Len(heap)

\* getattr(obj, name) on a mapped instance: None when the attribute is unset.
GetAttr(obj, name) == IF name \in DOMAIN obj.d THEN obj.d[name] ELSE None

\* hasattr(obj, name): the mapped columns of the object's class.
Columns(cls) == IF HasAudit(cls) THEN {"id", "name", "created", "updated"} ELSE {"id", "name"}
HasAttr(obj, name) == name \in Columns(obj.cls) \/ name \in DOMAIN obj.d

\* AbstractRepository.get_id_attribute_value / set_id_attribute_value
\* (id_attribute = "id").
get_id_attribute_value(obj) == GetAttr(obj, "id")
set_id_attribute_value(id, obj) == [obj EXCEPT !.d = Put(obj.d, "id", id)]

\* AbstractRepository.check_not_found: "ok" for an item, NotFoundError for None.
check_not_found(found) == IF found THEN "ok" ELSE "NotFoundError"

\* uuid4(): the n-th generated identifier; never one a caller made up.
uuid4(n) == MaxCallerId + n

\* What an operation hands back.  ret is the identity of the returned object
\* (0: no object of the heap), val the returned entity's attributes.
NoVal == EmptyMap
Result(op, obj, key, outcome, ret, val) ==
    [op |-> op, obj |-> obj, key |-> key, outcome |-> outcome, ret |-> ret, val |-> val,
     filters |-> <<>>, kwargs |-> EmptyMap, rows |-> <<>>, count |-> 0,
     cause |-> "", engine |-> ""]

\* No service class defined, nothing enqueued, and no repository class but
\* the one per entity type whose table `collection` holds.
Procs == 1..MaxProcs
NoTxn == [pc |-> "idle", obj |-> 0, seen |-> EmptyMap, isolation |-> ""]

InitProcess ==
    /\ services = [p \in Procs |-> EmptyMap]
    /\ classes = [p \in Procs |-> <<>>]
    /\ queue = <<>>
    /\ types = <<>>
    /\ dicts = <<>>
    /\ entity = <<>>
    /\ schemas = EmptyMap
    /\ repos = <<>>
    /\ txn = NoTxn

Init ==
    /\ InitProcess
    /\ backing \in {"mem", "sql"}
    /\ model_type \in ModelTypes
    /\ heap = <<>>
    /\ collection = [c \in ModelTypes |-> EmptyMap]
    /\ table = [c \in ModelTypes |-> EmptyMap]
    /\ attached = {}
    /\ calls = <<>>
    /\ clock = 1
    /\ ids = 0
    /\ last = Result("init", 0, None, "ok", 0, NoVal)

\* ------------------------------------------------------------ the caller
\* The instance dictionaries a caller can build: Model(id=..., name=..., ...).
NewDicts(cls, o, known) ==
    LET base == [k \in {"_sa_instance_state"} |-> o]
        opt(dset, k, vals) ==
            dset \cup { Put(d, k, v) : d \in dset, v \in vals }
        withId == opt({base}, "id", known)
        withName == opt(withId, "name", Names)
    IN  withName

\* The caller constructs an entity.
New ==
    /\ Len(heap) < MaxObjs
    /\ \E d \in NewDicts(model_type, Len(heap) + 1, CallerIds \cup {uuid4(n) : n \in 1..ids}) :
         heap' = Append(heap, [cls |-> model_type, d |-> d])
    /\ last' = Result("new", Len(heap) + 1, None, "ok", 0, NoVal)
    /\ UNCHANGED <<backing, model_type, collection, table, attached, calls, clock, ids>>
    /\ UNCHANGED pvars

\* Time passes between two operations; datetime.now() returns clock.
Tick ==
    /\ clock < MaxClock
    /\ clock' = clock + 1
    /\ last' = Result("tick", 0, None, "ok", 0, NoVal)
    /\ UNCHANGED <<backing, model_type, heap, collection, table, attached, calls, ids>>
    /\ UNCHANGED pvars

\* ------------------------------------------------- GenericMockRepository
\* key.startswith("_")
IsPrivate(key) == key \in {"_sa_instance_state"}

MemOut(outcome, ret, coll, hp) ==
    [outcome |-> outcome, ret |-> ret, coll |-> coll, heap |-> hp]

\* GenericMockRepository._find_or_raise_not_found
find_or_raise_not_found(coll, id) == check_not_found(id \in DOMAIN coll)

\* add that stamps `updated` alone.
MemAddOp_NoCreated(coll, hp, o, allow_id, now, newid) ==
    LET data == hp[o] IN
    IF ~allow_id /\ get_id_attribute_value(data) # None
    THEN MemOut("ConflictError", 0, coll, hp)
    ELSE LET stamped ==
                 IF HasAttr(data, "updated") /\ HasAttr(data, "created")
                 THEN [data EXCEPT !.d = Put(data.d, "updated", now)]
                 ELSE data
             keyed ==
                 IF ~allow_id THEN set_id_attribute_value(newid, stamped) ELSE stamped
         IN  MemOut("ok", o, Put(coll, GetAttr(keyed, "id"), o), [hp EXCEPT ![o] = keyed])

\* add that stamps the entity before it rejects an identified one.
MemAddOp_StampFirst(coll, hp, o, allow_id, now, newid) ==
    LET data == hp[o]
        stamped ==
            IF HasAttr(data, "updated") /\ HasAttr(data, "created")
            THEN [data EXCEPT !.d = Put(Put(data.d, "created", now), "updated", now)]
            ELSE [data EXCEPT !.d = Put(data.d, "name", None)]
    IN  IF ~allow_id /\ get_id_attribute_value(data) # None
        THEN MemOut("ConflictError", 0, coll, [hp EXCEPT ![o] = stamped])
        ELSE LET keyed ==
                     IF ~allow_id THEN set_id_attribute_value(newid, stamped) ELSE stamped
             IN  MemOut("ok", o, Put(coll, GetAttr(keyed, "id"), o), [hp EXCEPT ![o] = keyed])

\* GenericMockRepository.add(data, allow_id) on the table coll of data's type.
MemAddOp(coll, hp, o, allow_id, now, newid) ==
    LET data == hp[o] IN
    IF ~allow_id /\ get_id_attribute_value(data) # None
    THEN MemOut("ConflictError", 0, coll, hp)
    ELSE LET stamped ==
                 IF HasAttr(data, "updated") /\ HasAttr(data, "created")
                 THEN [data EXCEPT !.d = Put(Put(data.d, "created", now), "updated", now)]
                 ELSE data
             keyed ==
                 IF ~allow_id THEN set_id_attribute_value(newid, stamped) ELSE stamped
         IN  MemOut("ok", o, Put(coll, GetAttr(keyed, "id"), o), [hp EXCEPT ![o] = keyed])

\* delete that empties the table.
MemDeleteOp_Clear(coll, hp, id) ==
    IF id \in DOMAIN coll
    THEN MemOut("ok", coll[id], EmptyMap, hp)
    ELSE MemOut("KeyError", 0, coll, hp)

\* GenericMockRepository.delete(id_): try: return find ... finally: del collection[id_].
\* The del of the finally clause runs on both paths; on a missing key it raises
\* KeyError, which replaces the exception in flight.
MemDeleteOp(coll, hp, id) ==
    LET found == find_or_raise_not_found(coll, id) IN
    IF id \in DOMAIN coll
    THEN MemOut(found, coll[id], Del(coll, id), hp)
    ELSE MemOut("KeyError", 0, coll, hp)

\* GenericMockRepository.get(id_)
MemGetOp(coll, hp, id) ==
    LET found == find_or_raise_not_found(coll, id) IN
    IF found = "ok" THEN MemOut("ok", coll[id], coll, hp) ELSE MemOut(found, 0, coll, hp)

\* The copy loop without the startswith("_") test.
CopyPublic_All(item, data) ==
    [item EXCEPT !.d =
        [k \in (DOMAIN item.d) \cup (DOMAIN data.d) |->
            IF k \in DOMAIN data.d THEN data.d[k] ELSE item.d[k]]]

\* The for loop of update: setattr(item, key, val) for every public key of data.
CopyPublic(item, data) ==
    [item EXCEPT !.d =
        [k \in (DOMAIN item.d) \cup {x \in DOMAIN data.d : ~IsPrivate(x)} |->
            IF k \in DOMAIN data.d /\ ~IsPrivate(k) THEN data.d[k] ELSE item.d[k]]]

\* update that stamps data before it looks the record up.
MemUpdateOp_StampFirst(coll, hp, o, now) ==
    LET id == get_id_attribute_value(hp[o])
        found == find_or_raise_not_found(coll, id)
        hp1 == [hp EXCEPT ![o].d = Put(hp[o].d, "updated", now)]
    IN  IF found # "ok"
        THEN MemOut(found, 0, coll, hp1)
        ELSE LET item == coll[id]
             IN  MemOut("ok", item, coll, [hp1 EXCEPT ![item] = CopyPublic(hp1[item], hp1[o])])

\* update that leaves data.updated as the caller wrote it.
MemUpdateOp_NoStamp(coll, hp, o, now) ==
    LET id == get_id_attribute_value(hp[o])
        found == find_or_raise_not_found(coll, id)
    IN  IF found # "ok"
        THEN MemOut(found, 0, coll, hp)
        ELSE MemOut("ok", coll[id], coll, [hp EXCEPT ![coll[id]] = CopyPublic(hp[coll[id]], hp[o])])

\* GenericMockRepository.update(data)
MemUpdateOp(coll, hp, o, now) ==
    LET id == get_id_attribute_value(hp[o])
        found == find_or_raise_not_found(coll, id)
    IN  IF found # "ok"
        THEN MemOut(found, 0, coll, hp)
        ELSE LET item == coll[id]
                 hp1 == IF HasAttr(hp[o], "updated")
                        THEN [hp EXCEPT ![o].d = Put(hp[o].d, "updated", now)]
                        ELSE hp
             IN  MemOut("ok", item, coll, [hp1 EXCEPT ![item] = CopyPublic(hp1[item], hp1[o])])

\* upsert that always takes the add branch.
MemUpsertOp_AlwaysAdd(coll, hp, o, now, newid) ==
    MemAddOp(coll, hp, o, TRUE, now, newid)

\* GenericMockRepository.upsert(data)
MemUpsertOp(coll, hp, o, now, newid) ==
    LET id == get_id_attribute_value(hp[o]) IN
    IF id \in DOMAIN coll
    THEN MemUpdateOp(coll, hp, o, now)
    ELSE MemAddOp(coll, hp, o, TRUE, now, newid)

\* The attributes of an object of the heap hp, NoVal for no object.
ValOf(hp, o) == IF o = 0 THEN NoVal ELSE hp[o].d

\* One call of the in-memory repository of the entity's type takes effect.
MemApply(op, cls, o, key, out) ==
    /\ collection' = [collection EXCEPT ![cls] = out.coll]
    /\ heap' = out.heap
    /\ last' = Result(op, o, key, out.outcome, out.ret, ValOf(out.heap, out.ret))
    /\ UNCHANGED <<backing, model_type, table, attached, calls, clock>>
    /\ UNCHANGED pvars

\* The identifiers a caller may ask for: its own, generated ones, and None.
Keys == CallerIds \cup {uuid4(n) : n \in 1..ids} \cup {None}

MemAdd ==
    /\ backing = "mem"
    /\ \E o \in Objs :
         LET out == MemAddOp(collection[heap[o].cls], heap, o, FALSE, clock, uuid4(ids + 1))
         IN  /\ MemApply("add", heap[o].cls, o, None, out)
             /\ ids' = IF out.outcome = "ok" THEN ids + 1 ELSE ids
             /\ ids' <= MaxIds

MemDelete ==
    /\ backing = "mem"
    /\ \E id \in Keys :
         /\ MemApply("delete", model_type, 0, id, MemDeleteOp(collection[model_type], heap, id))
         /\ UNCHANGED ids

MemGet ==
    /\ backing = "mem"
    /\ \E id \in Keys :
         /\ MemApply("get", model_type, 0, id, MemGetOp(collection[model_type], heap, id))
         /\ UNCHANGED ids

MemUpdate ==
    /\ backing = "mem"
    /\ \E o \in Objs :
         /\ MemApply("update", heap[o].cls, o, None,
                     MemUpdateOp(collection[heap[o].cls], heap, o, clock))
         /\ UNCHANGED ids

MemUpsert ==
    /\ backing = "mem"
    /\ \E o \in Objs :
         /\ MemApply("upsert", heap[o].cls, o, None,
                     MemUpsertOp(collection[heap[o].cls], heap, o, clock, uuid4(ids + 1)))
         /\ UNCHANGED ids

MemNext == MemAdd \/ MemDelete \/ MemGet \/ MemUpdate \/ MemUpsert

\* --------------------------------------------------- SQLAlchemyRepository
\* The session is the caller's unit of work.  table is what its statements see;
\* calls lists the session methods the last operation called, in order.
SqlOut(outcome, ret, val, tbl, hp, att, called) ==
    [outcome |-> outcome, ret |-> ret, val |-> val, table |-> tbl, heap |-> hp,
     attached |-> att, calls |-> called]

\* The errors of the engine (sqlalchemy.exc): IntegrityError and the other
\* subclasses of SQLAlchemyError.
SQLAlchemyErrors == {"IntegrityError", "InvalidRequestError", "OperationalError",
                     "StaleDataError"}

\* What the caller sees of an exception that no handler has caught.
Unwrapped(exc) == [outcome |-> exc, cause |-> ""]

\* A wrapper that turns whatever is raised into the generic repository error.
wrap_sqlalchemy_exception_Any(exc) ==
    CASE exc = "IntegrityError" -> [outcome |-> "ConflictError", cause |-> exc]
      [] OTHER -> [outcome |-> "StarliteSaqlalchemyError", cause |-> exc]

\* wrap_sqlalchemy_exception: what leaves the with block when exc is raised
\* inside it, and the exception it is chained from.
wrap_sqlalchemy_exception(exc) ==
    CASE exc = "IntegrityError" -> [outcome |-> "ConflictError", cause |-> exc]
      [] exc \in SQLAlchemyErrors \ {"IntegrityError"} ->
            [outcome |-> "StarliteSaqlalchemyError", cause |-> exc]
      [] OTHER -> Unwrapped(exc)

\* The row an INSERT of an instance with __dict__ d writes: a column that is
\* unset or None takes its default (id: uuid4, created/updated: datetime.now,
\* orm.py CommonColumns / AuditColumns); name is nullable.
InsertRow(cls, d, now, newid) ==
    [c \in Columns(cls) |->
        IF c \in DOMAIN d /\ d[c] # None THEN d[c]
        ELSE IF c = "id" THEN newid
        ELSE IF c \in {"created", "updated"} THEN now
        ELSE None]

\* orm.touch_updated_timestamp, the before_flush listener: every dirty
\* instance that has an `updated` attribute gets updated = now.
touch_updated_timestamp(cls, row, now) ==
    IF "updated" \in Columns(cls) THEN [row EXCEPT !["updated"] = now] ELSE row

\* session.merge(data) onto the persistent row: every attribute loaded on data
\* is set on the persistent instance, which makes it dirty.
MergeRow(cls, row, d) ==
    [c \in Columns(cls) |-> IF c \in DOMAIN d THEN d[c] ELSE row[c]]

\* session.refresh(instance): the instance's attributes are the row's.
Refreshed(obj, row) ==
    [obj EXCEPT !.d = [k \in (DOMAIN row) \cup {x \in DOMAIN obj.d : IsPrivate(x)} |->
                          IF k \in DOMAIN row THEN row[k] ELSE obj.d[k]]]

\* SQLAlchemyRepository.add(data)
SqlAddOp(tbl, hp, att, o, now, newid) ==
    LET row == InsertRow(hp[o].cls, hp[o].d, now, newid) IN
    IF row["id"] \in DOMAIN tbl
    THEN \* IntegrityError from flush, wrapped by wrap_sqlalchemy_exception
         SqlOut(wrap_sqlalchemy_exception("IntegrityError").outcome, 0, NoVal, tbl, hp,
                att \cup {o}, <<"add", "flush">>)
    ELSE LET hp1 == [hp EXCEPT ![o] = Refreshed(hp[o], row)] IN
         SqlOut("ok", o, hp1[o].d, Put(tbl, row["id"], row), hp1, att \ {o},
                <<"add", "flush", "refresh", "expunge">>)

\* SQLAlchemyRepository.get(id_)
SqlGetOp(tbl, hp, att, id) ==
    IF check_not_found(id \in DOMAIN tbl) = "ok"
    THEN SqlOut("ok", 0, tbl[id], tbl, hp, att, <<"execute", "expunge">>)
    ELSE \* raised inside `with wrap_sqlalchemy_exception():`
         SqlOut(wrap_sqlalchemy_exception(check_not_found(FALSE)).outcome, 0, NoVal, tbl, hp,
                att, <<"execute">>)

\* A delete that commits what it has flushed.
SqlDeleteOp_Commit(tbl, hp, att, id) ==
    LET got == SqlGetOp(tbl, hp, att, id) IN
    IF got.outcome # "ok"
    THEN [got EXCEPT !.outcome = wrap_sqlalchemy_exception(got.outcome).outcome]
    ELSE SqlOut("ok", 0, got.val, Del(tbl, id), hp, att,
                got.calls \o <<"delete", "flush", "commit", "expunge">>)

\* SQLAlchemyRepository.delete(id_)
SqlDeleteOp(tbl, hp, att, id) ==
    LET got == SqlGetOp(tbl, hp, att, id) IN
    IF got.outcome # "ok"
    THEN [got EXCEPT !.outcome = wrap_sqlalchemy_exception(got.outcome).outcome]
    ELSE SqlOut("ok", 0, got.val, Del(tbl, id), hp, att,
                got.calls \o <<"delete", "flush", "expunge">>)

MergeFlush_RefreshFirst(tbl, hp, att, o, now, newid, called) ==
    LET data == hp[o]
        id == get_id_attribute_value(data)
        row == IF id # None /\ id \in DOMAIN tbl
               THEN touch_updated_timestamp(data.cls, MergeRow(data.cls, tbl[id], data.d), now)
               ELSE InsertRow(data.cls, data.d, now, newid)
    IN  SqlOut("ok", 0, row, Put(tbl, row["id"], row), hp, att,
               called \o <<"merge", "refresh", "flush", "expunge">>)

\* _attach_to_session(data, strategy="merge"), flush, refresh, expunge: the
\* tail that update and upsert share.
MergeFlush(tbl, hp, att, o, now, newid, called) ==
    LET data == hp[o]
        id == get_id_attribute_value(data)
    IN  IF id # None /\ id \in DOMAIN tbl
        THEN LET row == touch_updated_timestamp(data.cls, MergeRow(data.cls, tbl[id], data.d), now)
             IN  SqlOut("ok", 0, row, Put(tbl, id, row), hp, att,
                        called \o <<"merge", "flush", "refresh", "expunge">>)
        ELSE LET row == InsertRow(data.cls, data.d, now, newid)
             IN  SqlOut("ok", 0, row, Put(tbl, row["id"], row), hp, att,
                        called \o <<"merge", "flush", "refresh", "expunge">>)

\* SQLAlchemyRepository.update(data)
SqlUpdateOp(tbl, hp, att, o, now, newid) ==
    LET got == SqlGetOp(tbl, hp, att, get_id_attribute_value(hp[o])) IN
    IF got.outcome # "ok"
    THEN [got EXCEPT !.outcome = wrap_sqlalchemy_exception(got.outcome).outcome]
    ELSE MergeFlush(tbl, hp, att, o, now, newid, got.calls)

\* upsert that looks the record up first, as update does.
SqlUpsertOp_Checked(tbl, hp, att, o, now, newid) ==
    SqlUpdateOp(tbl, hp, att, o, now, newid)

\* SQLAlchemyRepository.upsert(data)
SqlUpsertOp(tbl, hp, att, o, now, newid) ==
    MergeFlush(tbl, hp, att, o, now, newid, <<>>)

\* One call of the SQL repository takes effect.
SqlApply(op, o, key, out) ==
    /\ table' = [table EXCEPT ![model_type] = out.table]
    /\ heap' = out.heap
    /\ attached' = out.attached
    /\ calls' = out.calls
    /\ last' = Result(op, o, key, out.outcome, out.ret, out.val)
    /\ ids' = IF uuid4(ids + 1) \in DOMAIN out.table THEN ids + 1 ELSE ids
    /\ ids' <= MaxIds
    /\ UNCHANGED <<backing, model_type, collection, clock>>
    /\ UNCHANGED pvars

SqlAdd ==
    /\ backing = "sql"
    /\ \E o \in Objs :
         SqlApply("add", o, None,
                  SqlAddOp(table[model_type], heap, attached, o, clock, uuid4(ids + 1)))

SqlGet ==
    /\ backing = "sql"
    /\ \E id \in Keys :
         SqlApply("get", 0, id, SqlGetOp(table[model_type], heap, attached, id))

SqlDelete ==
    /\ backing = "sql"
    /\ \E id \in Keys :
         SqlApply("delete", 0, id, SqlDeleteOp(table[model_type], heap, attached, id))

SqlUpdate ==
    /\ backing = "sql"
    /\ \E o \in Objs :
         SqlApply("update", o, None,
                  SqlUpdateOp(table[model_type], heap, attached, o, clock, uuid4(ids + 1)))

SqlUpsert ==
    /\ backing = "sql"
    /\ \E o \in Objs :
         SqlApply("upsert", o, None,
                  SqlUpsertOp(table[model_type], heap, attached, o, clock, uuid4(ids + 1)))

SqlNext == SqlAdd \/ SqlGet \/ SqlDelete \/ SqlUpdate \/ SqlUpsert

Next == New \/ Tick \/ MemNext \/ SqlNext

Spec == Init /\ [][Next]_vars

\* ------------------------------------------- filtered list, count (SQL)
\* repository/filters.py: the three filter types, and a value that is none.
BeforeAfter(field_name, before, after) ==
    [type |-> "BeforeAfter", field_name |-> field_name, before |-> before, after |-> after,
     values |-> {}, limit |-> None, offset |-> None]
CollectionFilter(field_name, values) ==
    [type |-> "CollectionFilter", field_name |-> field_name, before |-> None, after |-> None,
     values |-> values, limit |-> None, offset |-> None]
LimitOffset(limit, offset) ==
    [type |-> "LimitOffset", field_name |-> "", before |-> None, after |-> None,
     values |-> {}, limit |-> limit, offset |-> offset]
NotAFilter ==
    [type |-> "str", field_name |-> "", before |-> None, after |-> None,
     values |-> {}, limit |-> None, offset |-> None]

\* A select statement: its WHERE clauses (all must be true of a row), LIMIT
\* and OFFSET.  A clause compares a column with a bound (cmp "lt", "gt", "eq")
\* or tests membership (cmp "in").
Clause(cmp, field, arg, values) == [cmp |-> cmp, field |-> field, arg |-> arg, values |-> values]
Where(sel, clause) == [sel EXCEPT !.wheres = Append(@, clause)]
\* _create_select_for_model, select(count(id)), select(model, over(count(id)))
\* raised: the exception that building the statement has raised, "ok" for none.
SelectOf(what) ==
    [what |-> what, wheres |-> <<>>, limit |-> None, offset |-> None, raised |-> "ok"]
Raise(sel, exc) == [sel EXCEPT !.raised = exc]

\* getattr(self.model_type, name) finds a mapped column; any other name raises
\* AttributeError.
model_getattr(name) == name \in Columns(model_type)

\* SQL truth of a clause for a row: a comparison with NULL is not true.
ClauseTrue(row, c) ==
    LET v == row[c.field] IN
    CASE c.cmp = "lt" -> v # None /\ c.arg # None /\ v < c.arg
      [] c.cmp = "gt" -> v # None /\ c.arg # None /\ v > c.arg
      [] c.cmp = "eq" -> IF c.arg = None THEN v = None ELSE v = c.arg
      [] c.cmp = "in" -> v # None /\ v \in c.values

\* SQLAlchemyRepository._apply_limit_offset_pagination
apply_limit_offset_pagination(limit, offset, sel) ==
    [sel EXCEPT !.limit = limit, !.offset = offset]

\* SQLAlchemyRepository._filter_on_datetime_field: the `after` branch
\* compares the field with `before`.
filter_on_datetime_field(field_name, before, after, sel) ==
    IF ~model_getattr(field_name) THEN Raise(sel, "AttributeError")
    ELSE LET s1 == IF before # None THEN Where(sel, Clause("lt", field_name, before, {})) ELSE sel
         IN  IF after # None THEN Where(s1, Clause("gt", field_name, before, {})) ELSE s1

\* _filter_in_collection without the test for an empty collection.
filter_in_collection_NoTest(field_name, values, sel) ==
    IF ~model_getattr(field_name) THEN Raise(sel, "AttributeError")
    ELSE Where(sel, Clause("in", field_name, None, values))

\* SQLAlchemyRepository._filter_in_collection
filter_in_collection(field_name, values, sel) ==
    IF values = {} THEN sel
    ELSE IF ~model_getattr(field_name) THEN Raise(sel, "AttributeError")
    ELSE Where(sel, Clause("in", field_name, None, values))

\* The match statement of _filter_for_list and of count, for the filters from
\* position i on; paginate tells whether LimitOffset is applied (list) or
\* passed over (count).  err: a filter of no known type was met.  The loop
\* ends at the first exception.
RECURSIVE FoldFilters(_, _, _, _)
FoldFilters(filters, i, paginate, sel) ==
    IF i > Len(filters) \/ sel.raised # "ok" THEN [err |-> FALSE, sel |-> sel]
    ELSE LET f == filters[i] IN
         CASE f.type = "LimitOffset" ->
                FoldFilters(filters, i + 1, paginate,
                            IF paginate THEN apply_limit_offset_pagination(f.limit, f.offset, sel)
                            ELSE sel)
           [] f.type = "BeforeAfter" ->
                FoldFilters(filters, i + 1, paginate,
                            filter_on_datetime_field(f.field_name, f.before, f.after, sel))
           [] f.type = "CollectionFilter" ->
                FoldFilters(filters, i + 1, paginate,
                            filter_in_collection(f.field_name, f.values, sel))
           [] OTHER -> [err |-> TRUE, sel |-> sel]

\* SQLAlchemyRepository._filter_for_list
filter_for_list(filters, sel) == FoldFilters(filters, 1, TRUE, sel)

\* SQLAlchemyRepository._filter_select_by_kwargs
RECURSIVE filter_select_by_kwargs(_, _)
filter_select_by_kwargs(sel, kwargs) ==
    IF DOMAIN kwargs = {} THEN sel
    ELSE LET key == CHOOSE k \in DOMAIN kwargs : TRUE
         IN  IF ~model_getattr(key) THEN Raise(sel, "AttributeError")
             ELSE filter_select_by_kwargs(Where(sel, Clause("eq", key, kwargs[key], {})),
                                          Del(kwargs, key))

\* The rows of tbl in primary-key order.
RECURSIVE RowsOf(_)
RowsOf(tbl) ==
    IF DOMAIN tbl = {} THEN <<>>
    ELSE LET k == CHOOSE x \in DOMAIN tbl : \A y \in DOMAIN tbl : x <= y
         IN  <<tbl[k]>> \o RowsOf(Del(tbl, k))

Keep(rows, sel) ==
    SelectSeq(rows, LAMBDA r : \A i \in 1..Len(sel.wheres) : ClauseTrue(r, sel.wheres[i]))

Page(rows, sel) ==
    LET off == IF sel.offset = None THEN 0 ELSE sel.offset
        from == IF off > Len(rows) THEN Len(rows) ELSE off
        rest == SubSeq(rows, from + 1, Len(rows))
    IN  IF sel.limit = None \/ sel.limit >= Len(rest) THEN rest ELSE SubSeq(rest, 1, sel.limit)

\* An execute that cuts the page out of the table before it applies the WHERE.
Execute_PageFirst(tbl, sel) ==
    LET kept == Keep(RowsOf(tbl), sel)
    IN  [rows |-> Keep(Page(RowsOf(tbl), sel), sel), total |-> Len(kept)]

\* session.execute(select_): the rows that are returned, and the value of
\* count(id) as an aggregate or as a window over all rows the WHERE keeps.
Execute(tbl, sel) ==
    LET kept == Keep(RowsOf(tbl), sel)
    IN  [rows |-> Page(kept, sel), total |-> Len(kept)]

ListOut(outcome, rows, count, called) ==
    [outcome |-> outcome, rows |-> rows, count |-> count, calls |-> called]

\* A loop that leaves the first instance in the session.
Expunges_ButFirst(n) == [i \in 1..(n - 1) |-> "expunge"]

\* for instance in instances: self.session.expunge(instance)
Expunges(n) == [i \in 1..n |-> "expunge"]

\* SQLAlchemyRepository.list(*filters, **kwargs)
SqlListOp(tbl, filters, kwargs) ==
    LET f == filter_for_list(filters, SelectOf("model")) IN
    IF f.err
    THEN ListOut("StarliteSaqlalchemyError", <<>>, 0, <<>>)
    ELSE LET sel == filter_select_by_kwargs(f.sel, kwargs)
             res == Execute(tbl, sel)
         IN  IF sel.raised # "ok"
             THEN ListOut(sel.raised, <<>>, 0, <<>>)
             ELSE ListOut("ok", res.rows, 0, <<"execute">> \o Expunges(Len(res.rows)))

\* SQLAlchemyRepository.list_and_count(*filters, **kwargs): the count is the
\* window count carried by the first returned row, 0 when no row is returned.
SqlListAndCountOp(tbl, filters, kwargs) ==
    LET f == filter_for_list(filters, SelectOf("model, count over ()")) IN
    IF f.err
    THEN ListOut("StarliteSaqlalchemyError", <<>>, 0, <<>>)
    ELSE LET sel == filter_select_by_kwargs(f.sel, kwargs)
             res == Execute(tbl, sel)
         IN  IF sel.raised # "ok"
             THEN ListOut(sel.raised, <<>>, 0, <<>>)
             ELSE ListOut("ok", res.rows, IF Len(res.rows) = 0 THEN 0 ELSE res.total,
                          <<"execute">> \o Expunges(Len(res.rows)))

\* SQLAlchemyRepository.count(*filters, **kwargs): keyword filters are accepted
\* and not applied.
SqlCountOp(tbl, filters, kwargs) ==
    LET f == FoldFilters(filters, 1, FALSE, SelectOf("count")) IN
    IF f.err
    THEN ListOut("StarliteSaqlalchemyError", <<>>, 0, <<>>)
    ELSE IF f.sel.raised # "ok"
    THEN ListOut(f.sel.raised, <<>>, 0, <<>>)
    ELSE ListOut("ok", <<>>, Execute(tbl, f.sel).total, <<"execute">>)

\* The filters and keyword filters a caller passes; "nope" is a name that is
\* no attribute of the model.
Stamps == 1..MaxClock
FilterSet ==
    {BeforeAfter(f, b, a) : f \in {"created", "updated", "nope"},
                            b \in {None} \cup (1..(MaxClock + 1)),
                            a \in {None} \cup (0..MaxClock)}
    \cup {CollectionFilter(f, vs) : f \in {"name", "nope"}, vs \in SUBSET Names}
    \cup {LimitOffset(l, o) : l \in 0..MaxRows, o \in 0..MaxRows}
    \cup {NotAFilter}
FilterSeqs == UNION {[1..n -> FilterSet] : n \in 0..MaxFilters}
KwargSet == {EmptyMap} \cup {[k \in {f} |-> v] : f \in {"name", "nope"}, v \in Names}

\* Calls of list with several positional filters, in every order.
SomeFilters ==
    {LimitOffset(1, 1), BeforeAfter("created", MaxClock, None),
     CollectionFilter("name", {1}), BeforeAfter("nope", None, None), NotAFilter}
OrderedSeqs == UNION {[1..n -> SomeFilters] : n \in 2..MaxOrdered}
ListCalls ==
    (FilterSeqs \X KwargSet) \cup (OrderedSeqs \X {EmptyMap, [k \in {"name"} |-> 1]})

\* A query leaves the table and the session as they were, so a behaviour of
\* the query specification runs one query on its table.
SqlListApply(op, filters, kwargs, out) ==
    /\ last.op = "init"
    /\ calls' = out.calls
    /\ last' = [Result(op, 0, None, out.outcome, 0, NoVal) EXCEPT
                    !.filters = filters, !.kwargs = kwargs,
                    !.rows = out.rows, !.count = out.count]
    /\ UNCHANGED <<backing, model_type, heap, collection, table, attached, clock, ids>>
    /\ UNCHANGED pvars

SqlList ==
    /\ backing = "sql"
    /\ \E c \in ListCalls :
         SqlListApply("list", c[1], c[2], SqlListOp(table[model_type], c[1], c[2]))

SqlListAndCount ==
    /\ backing = "sql"
    /\ \E filters \in FilterSeqs, kwargs \in KwargSet :
         SqlListApply("list_and_count", filters, kwargs,
                      SqlListAndCountOp(table[model_type], filters, kwargs))

SqlCount ==
    /\ backing = "sql"
    /\ \E filters \in FilterSeqs, kwargs \in KwargSet :
         SqlListApply("count", filters, kwargs, SqlCountOp(table[model_type], filters, kwargs))

\* SQLAlchemyRepository.filter_collection_by_kwargs(collection, **kwargs):
\* collection.filter_by(**kwargs) raises InvalidRequestError for a keyword that
\* is no property of the selected entity.
SqlFilterCollectionByKwargsOp(sel, kwargs) ==
    IF \E k \in DOMAIN kwargs : ~model_getattr(k)
    THEN [seen |-> wrap_sqlalchemy_exception("InvalidRequestError"), sel |-> sel]
    ELSE [seen |-> [outcome |-> "ok", cause |-> ""], sel |-> filter_select_by_kwargs(sel, kwargs)]

\* The method returns a statement and calls nothing on the session; rows is
\* what the returned statement selects from the table.
SqlFilterCollectionByKwargs ==
    /\ backing = "sql"
    /\ last.op = "init"
    /\ \E kwargs \in KwargSet :
         LET out == SqlFilterCollectionByKwargsOp(SelectOf("model"), kwargs)
         IN  last' = [Result("filter_collection_by_kwargs", 0, None, out.seen.outcome, 0, NoVal)
                         EXCEPT !.kwargs = kwargs, !.cause = out.seen.cause,
                                !.rows = IF out.seen.outcome = "ok"
                                         THEN Execute(table[model_type], out.sel).rows
                                         ELSE <<>>]
    /\ calls' = <<>>
    /\ UNCHANGED <<backing, model_type, heap, collection, table, attached, clock, ids>>
    /\ UNCHANGED pvars

\* The tables the queries run on: up to MaxRows rows of the audited model,
\* as add and update leave them (created no later than updated).
RowBodies ==
    {b \in [name : {None} \cup Names, created : Stamps, updated : Stamps] :
        b.created <= b.updated}
RowOf(id, body) == [c \in Columns("AuditBase") |-> IF c = "id" THEN id ELSE body[c]]
TableSet ==
    UNION {{[k \in K |-> RowOf(k, body[k])] : body \in [K -> RowBodies]} :
              K \in SUBSET (1..MaxRows)}

InitList ==
    /\ InitProcess
    /\ backing = "sql"
    /\ model_type = "AuditBase"
    /\ heap = <<>>
    /\ collection = [c \in ModelTypes |-> EmptyMap]
    /\ table \in {[c \in ModelTypes |-> IF c = "AuditBase" THEN t ELSE EmptyMap] :
                     t \in TableSet}
    /\ attached = {}
    /\ calls = <<>>
    /\ clock = MaxClock
    /\ ids = 0
    /\ last = Result("init", 0, None, "ok", 0, NoVal)

NextList == SqlList \/ SqlListAndCount \/ SqlCount \/ SqlFilterCollectionByKwargs

SpecList == InitList /\ [][NextList]_vars

\* -------------------------------------------- errors of the engine (SQL)
\* The session calls of an operation that stand inside a
\* `with wrap_sqlalchemy_exception():` block: all of them, but for count,
\* whose execute stands outside any.
InWith(op) == op # "count"

\* Session call number `at` of the operation raises the engine error exc.  out
\* is what the operation would do undisturbed: the calls up to `at` are made,
\* the table holds what an earlier flush has written, the entity handed to add
\* stays in the session with what that flush has set on it.
FaultOut(op, out, at, exc, tbl, hp, att, o) ==
    LET inner == wrap_sqlalchemy_exception(exc)
        \* the execute of the get that update and delete call inside their own
        \* with block: what leaves get's block passes the outer one too
        outer == wrap_sqlalchemy_exception(inner.outcome)
        seen == IF ~InWith(op) THEN Unwrapped(exc)
                ELSE IF op \in {"update", "delete"} /\ at = 1
                THEN [outcome |-> outer.outcome,
                      cause |-> IF outer.cause = "" THEN inner.cause ELSE outer.cause]
                ELSE inner
        flushed == \E i \in 1..(at - 1) : out.calls[i] = "flush"
    IN  [outcome |-> seen.outcome, cause |-> seen.cause, calls |-> SubSeq(out.calls, 1, at),
         table |-> IF flushed THEN out.table ELSE tbl,
         heap |-> IF flushed /\ op = "add" THEN out.heap ELSE hp,
         attached |-> IF op = "add" THEN att \cup {o} ELSE att]

EngineErrors == {"IntegrityError", "OperationalError"}

\* One call of the SQL repository during which the engine raises.
FaultApply(op, o, key, out) ==
    /\ last.op \in {"init", "new"}
    /\ \E at \in 1..Len(out.calls), exc \in EngineErrors :
         /\ out.calls[at] # "expunge"
         /\ LET f == FaultOut(op, out, at, exc, table[model_type], heap, attached, o)
            IN  /\ table' = [table EXCEPT ![model_type] = f.table]
                /\ heap' = f.heap
                /\ attached' = f.attached
                /\ calls' = f.calls
                /\ last' = [Result(op, o, key, f.outcome, 0, NoVal) EXCEPT
                                !.cause = f.cause, !.engine = exc]
    /\ UNCHANGED <<backing, model_type, collection, clock, ids>>
    /\ UNCHANGED pvars

SqlAddFails ==
    \E o \in Objs :
       FaultApply("add", o, None,
                  SqlAddOp(table[model_type], heap, attached, o, clock, uuid4(ids + 1)))

SqlGetFails ==
    \E id \in Keys :
       FaultApply("get", 0, id, SqlGetOp(table[model_type], heap, attached, id))

SqlDeleteFails ==
    \E id \in Keys :
       FaultApply("delete", 0, id, SqlDeleteOp(table[model_type], heap, attached, id))

SqlUpdateFails ==
    \E o \in Objs :
       FaultApply("update", o, None,
                  SqlUpdateOp(table[model_type], heap, attached, o, clock, uuid4(ids + 1)))

SqlUpsertFails ==
    \E o \in Objs :
       FaultApply("upsert", o, None,
                  SqlUpsertOp(table[model_type], heap, attached, o, clock, uuid4(ids + 1)))

SqlListFails ==
    \E kwargs \in KwargSet :
       FaultApply("list", 0, None, SqlListOp(table[model_type], <<>>, kwargs))

SqlListAndCountFails ==
    \E kwargs \in KwargSet :
       FaultApply("list_and_count", 0, None,
                  SqlListAndCountOp(table[model_type], <<>>, kwargs))

SqlCountFails ==
    \E kwargs \in KwargSet :
       FaultApply("count", 0, None, SqlCountOp(table[model_type], <<>>, kwargs))

\* A populated table and one entity in the caller's hands.
InitFault ==
    /\ InitProcess
    /\ backing = "sql"
    /\ model_type = "AuditBase"
    /\ heap \in {<<[cls |-> "AuditBase", d |-> d]>> : d \in NewDicts("AuditBase", 1, CallerIds)}
    /\ collection = [c \in ModelTypes |-> EmptyMap]
    /\ table \in {[c \in ModelTypes |-> IF c = "AuditBase" THEN t ELSE EmptyMap] :
                     t \in TableSet}
    /\ attached = {}
    /\ calls = <<>>
    /\ clock = MaxClock
    /\ ids = 0
    /\ last = Result("init", 0, None, "ok", 0, NoVal)

NextFault ==
    \/ SqlAddFails \/ SqlGetFails \/ SqlDeleteFails \/ SqlUpdateFails \/ SqlUpsertFails
    \/ SqlListFails \/ SqlListAndCountFails \/ SqlCountFails

SpecFault == InitFault /\ [][NextFault]_vars

\* ------------------------------------------- one unit of work (SQL)
\* Every operation of the SQL repository over a populated table: the queries
\* on the table as it stands, the others in any sequence once the caller has
\* an entity in hand.
InitSession ==
    /\ InitProcess
    /\ backing = "sql"
    /\ model_type = "AuditBase"
    /\ collection = [c \in ModelTypes |-> EmptyMap]
    /\ table \in {[c \in ModelTypes |-> IF c = "AuditBase" THEN t ELSE EmptyMap] :
                     t \in TableSet}
    /\ attached = {}
    /\ calls = <<>>
    /\ clock = MaxClock
    /\ ids = 0
    /\ \/ /\ heap = <<>>
          /\ last = Result("init", 0, None, "ok", 0, NoVal)
       \/ /\ heap \in {<<[cls |-> "AuditBase", d |-> d]>> :
                           d \in NewDicts("AuditBase", 1, CallerIds)}
          /\ last = Result("new", 1, None, "ok", 0, NoVal)

NextSession == SqlNext \/ SqlList \/ SqlListAndCount

SpecSession == InitSession /\ [][NextSession]_vars

\* The same unit of work with the engine free to raise in the first call
\* made on the session; a session whose call has raised takes no further
\* call (the caller rolls it back).
NextUnit ==
    \/ /\ last.engine = ""
       /\ (NextSession \/ SqlCount)
    \/ NextFault

SpecUnit == InitSession /\ [][NextUnit]_vars

\* --------------------------------------------- two units of work (SQL)
\* The isolation level the engine runs a transaction at: a statement sees
\* what is committed when it runs, or what was when the transaction began.
Isolations == {"read committed", "repeatable read"}

\* update(data) up to `await self.get(id_)`: the select has run and the
\* instance is expunged; the coroutine is suspended at the await of merge.
SqlUpdateGet ==
    /\ txn.pc = "idle"
    /\ \E o \in Objs, iso \in Isolations :
         LET got == SqlGetOp(table[model_type], heap, attached,
                             get_id_attribute_value(heap[o]))
         IN  /\ txn' = IF got.outcome = "ok"
                       THEN [pc |-> "got", obj |-> o, seen |-> table[model_type],
                             isolation |-> iso]
                       ELSE txn
             /\ calls' = got.calls
             /\ last' = IF got.outcome = "ok"
                        THEN Result("get", o, None, "ok", 0, got.val)
                        ELSE Result("update", o, None,
                                    wrap_sqlalchemy_exception(got.outcome).outcome, 0, NoVal)
    /\ UNCHANGED <<backing, model_type, heap, collection, table, attached, clock, ids>>
    /\ UNCHANGED <<services, classes, queue, types, dicts, entity, schemas, repos>>

\* Another caller deletes a record through a session of its own and commits.
OtherDelete ==
    /\ \E id \in DOMAIN table[model_type] :
         LET out == SqlDeleteOp(table[model_type], heap, {}, id)
         IN  /\ table' = [table EXCEPT ![model_type] = out.table]
             /\ last' = Result("delete", 0, id, out.outcome, 0, out.val)
    /\ UNCHANGED <<backing, model_type, heap, collection, attached, calls, clock, ids>>
    /\ UNCHANGED pvars

\* The rest of update(data): merge selects the row by primary key among the
\* rows the transaction sees (get has expunged the instance) and, finding
\* none, makes a new pending instance that the flush inserts; a row it sees
\* but that is gone makes the flush's UPDATE match nothing, which raises.
SqlUpdateMerge ==
    /\ txn.pc = "got"
    /\ LET o == txn.obj
           id == get_id_attribute_value(heap[o])
           visible == IF txn.isolation = "read committed" THEN table[model_type]
                      ELSE txn.seen
           out == MergeFlush(visible, heap, attached, o, clock, uuid4(ids + 1), calls)
           seen == wrap_sqlalchemy_exception("StaleDataError")
       IN  IF id \in DOMAIN visible /\ id \notin DOMAIN table[model_type]
           THEN /\ table' = table
                /\ calls' = calls \o <<"merge", "flush">>
                /\ last' = [Result("update", o, None, seen.outcome, 0, NoVal)
                                EXCEPT !.cause = seen.cause]
           ELSE /\ table' = [table EXCEPT ![model_type] = Put(@, out.val["id"], out.val)]
                /\ calls' = out.calls
                /\ last' = Result("update", o, None, out.outcome, 0, out.val)
    /\ txn' = NoTxn
    /\ UNCHANGED <<backing, model_type, heap, collection, attached, clock, ids>>
    /\ UNCHANGED <<services, classes, queue, types, dicts, entity, schemas, repos>>

NextRace == SqlUpdateGet \/ OtherDelete \/ SqlUpdateMerge

SpecRace == InitSession /\ [][NextRace]_<<vars, pvars>>

\* ------------------------------------------- timestamps of the caller
\* A time before the first datetime.now() of the run: only a caller can
\* have written it.
CallerStamp == 0

\* Model(id=..., name=..., created=..., updated=...): created and updated are
\* mapped columns like any other, so the constructor takes them.
StampDicts(cls, o, known) ==
    LET opt(dset, k, vals) == dset \cup { Put(d, k, v) : d \in dset, v \in vals }
    IN  opt(opt(NewDicts(cls, o, known), "created", {CallerStamp}), "updated", {CallerStamp})

\* Either backing, empty or holding one record stamped by the repository, and
\* one entity in the caller's hands.
InitStamp ==
    /\ InitProcess
    /\ backing \in {"mem", "sql"}
    /\ model_type = "AuditBase"
    /\ clock = 1
    /\ ids = 0
    /\ attached = {}
    /\ calls = <<>>
    /\ last = Result("new", 2, None, "ok", 0, NoVal)
    /\ \E seeded \in BOOLEAN, d \in StampDicts("AuditBase", 2, CallerIds) :
         LET row == [id |-> 1, name |-> 1, created |-> 1, updated |-> 1]
             kept == IF seeded THEN [k \in {1} |-> 1] ELSE EmptyMap
             rows == IF seeded THEN [k \in {1} |-> row] ELSE EmptyMap
         IN  /\ heap = <<[cls |-> "AuditBase", d |-> Put(row, "_sa_instance_state", 1)],
                         [cls |-> "AuditBase", d |-> d]>>
             /\ collection = [c \in ModelTypes |->
                                 IF c = "AuditBase" /\ backing = "mem" THEN kept ELSE EmptyMap]
             /\ table = [c \in ModelTypes |->
                            IF c = "AuditBase" /\ backing = "sql" THEN rows ELSE EmptyMap]

NextStamp == Tick \/ MemNext \/ SqlNext

SpecStamp == InitStamp /\ [][NextStamp]_vars

\* ------------------------------------- list and filter (in-memory)
\* The columns of an entity, as a row.
RowOfObj(obj) == [c \in Columns(obj.cls) |-> GetAttr(obj, c)]
TableOf(coll, hp) == [k \in DOMAIN coll |-> RowOfObj(hp[coll[k]])]

\* GenericMockRepository.list(*filters, **kwargs): list(self.collection.values()),
\* whatever the filters are.  (The dict's insertion order is not kept here;
\* the records are listed by key.)
MemListOp(coll, hp, filters, kwargs) ==
    ListOut("ok", RowsOf(TableOf(coll, hp)), 0, <<>>)

\* all(getattr(item, name) == value for name, value in kwargs.items()) from
\* the i-th keyword on: the generator stops at the first keyword that differs,
\* and getattr raises AttributeError for a name the item does not have.
RECURSIVE ItemTest(_, _, _)
ItemTest(obj, kwseq, i) ==
    IF i > Len(kwseq) THEN "true"
    ELSE IF ~HasAttr(obj, kwseq[i][1]) THEN "AttributeError"
    ELSE IF GetAttr(obj, kwseq[i][1]) # kwseq[i][2] THEN "false"
    ELSE ItemTest(obj, kwseq, i + 1)

\* GenericMockRepository.filter_collection_by_kwargs(**kwargs); kwseq lists
\* the keywords in the order of the call.  self.collection is assigned after
\* the loop, so an exception leaves it as it was.
MemFilterCollectionByKwargsOp(coll, hp, kwseq) ==
    LET test(k) == ItemTest(hp[coll[k]], kwseq, 1)
        kept == {k \in DOMAIN coll : test(k) = "true"}
        byId(id) == CHOOSE k \in kept :
                       /\ GetAttr(hp[coll[k]], "id") = id
                       /\ \A j \in kept : GetAttr(hp[coll[j]], "id") = id => j <= k
    IN  IF \E k \in DOMAIN coll : test(k) = "AttributeError"
        THEN MemOut("StarliteSaqlalchemyError", 0, coll, hp)
        ELSE MemOut("ok", 0,
                    [id \in {GetAttr(hp[coll[k]], "id") : k \in kept} |-> coll[byId(id)]],
                    hp)

\* The keywords of a call, in order: no name twice.
KwargPairs == {"name", "nope"} \X Names
KwargSeqs ==
    {<<>>} \cup {<<p>> : p \in KwargPairs}
    \cup {pq \in KwargPairs \X KwargPairs : pq[1][1] # pq[2][1]}

IsMemQuery(lst) == lst.op \in {"list", "filter_collection_by_kwargs"}

MemList ==
    /\ backing = "mem"
    /\ ~IsMemQuery(last)
    /\ \E filters \in FilterSeqs, kwargs \in KwargSet :
         LET out == MemListOp(collection[model_type], heap, filters, kwargs)
         IN  last' = [Result("list", 0, None, out.outcome, 0, NoVal) EXCEPT
                         !.filters = filters, !.kwargs = kwargs, !.rows = out.rows]
    /\ UNCHANGED <<backing, model_type, heap, collection, table, attached, calls, clock, ids>>
    /\ UNCHANGED pvars

MemFilterCollectionByKwargs ==
    /\ backing = "mem"
    /\ ~IsMemQuery(last)
    /\ \E kwseq \in KwargSeqs :
         LET out == MemFilterCollectionByKwargsOp(collection[model_type], heap, kwseq)
         IN  /\ collection' = [collection EXCEPT ![model_type] = out.coll]
             /\ last' = [Result("filter_collection_by_kwargs", 0, None, out.outcome, 0, NoVal)
                             EXCEPT !.kwargs = kwseq]
    /\ UNCHANGED <<backing, model_type, heap, table, attached, calls, clock, ids>>
    /\ UNCHANGED pvars

\* The collections the in-memory queries run on: the records of a table of
\* TableSet, seeded as entities keyed by their id.
ObjOfRow(row, o) ==
    [cls |-> "AuditBase",
     d |-> [k \in (DOMAIN row) \cup {"_sa_instance_state"} |->
               IF k \in DOMAIN row THEN row[k] ELSE o]]
HeapOf(t) == [i \in 1..Cardinality(DOMAIN t) |-> ObjOfRow(RowsOf(t)[i], i)]
CollOf(t) == [k \in DOMAIN t |-> CHOOSE i \in 1..Cardinality(DOMAIN t) : RowsOf(t)[i]["id"] = k]

InitMem ==
    /\ InitProcess
    /\ backing = "mem"
    /\ model_type = "AuditBase"
    /\ \E t \in TableSet :
         /\ heap = HeapOf(t)
         /\ collection = [c \in ModelTypes |-> IF c = "AuditBase" THEN CollOf(t) ELSE EmptyMap]
    /\ table = [c \in ModelTypes |-> EmptyMap]
    /\ attached = {}
    /\ calls = <<>>
    /\ clock = MaxClock
    /\ ids = 0
    /\ last = Result("init", 0, None, "ok", 0, NoVal)

NextMem == MemList \/ MemFilterCollectionByKwargs

SpecMem == InitMem /\ [][NextMem]_vars

\* ---------------------------------------------------------------- Service
\* Service.get / Service.delete / Service.update of service/generic.py, the
\* service that holds no repository: get and delete raise NotFoundError,
\* update returns the data it was given.
ServiceOp(op, o) ==
    CASE op = "update" -> [outcome |-> "ok", ret |-> o]
      [] op \in {"get", "delete"} -> [outcome |-> "NotFoundError", ret |-> 0]

\* The call of a service without repository takes effect: nothing is stored.
ServiceApply(op, o, key) ==
    /\ last' = Result(op, o, key, ServiceOp(op, o).outcome, ServiceOp(op, o).ret,
                      ValOf(heap, ServiceOp(op, o).ret))
    /\ UNCHANGED <<backing, model_type, heap, collection, table, attached, calls, clock, ids>>
    /\ UNCHANGED pvars

\* service.get(id_): backing "none" is the generic service; a service wired
\* to a repository hands the call to repository.get(id_).
ServiceGet ==
    \E id \in Keys :
       \/ /\ backing = "none"
          /\ ServiceApply("get", 0, id)
       \/ /\ backing = "mem"
          /\ MemApply("get", model_type, 0, id, MemGetOp(collection[model_type], heap, id))
          /\ UNCHANGED ids
       \/ /\ backing = "sql"
          /\ SqlApply("get", 0, id, SqlGetOp(table[model_type], heap, attached, id))

\* service.delete(id_): repository.delete(id_) behind a wired service.
ServiceDelete ==
    \E id \in Keys :
       \/ /\ backing = "none"
          /\ ServiceApply("delete", 0, id)
       \/ /\ backing = "mem"
          /\ MemApply("delete", model_type, 0, id,
                      MemDeleteOp(collection[model_type], heap, id))
          /\ UNCHANGED ids
       \/ /\ backing = "sql"
          /\ SqlApply("delete", 0, id, SqlDeleteOp(table[model_type], heap, attached, id))

\* service.update(id_, data): a wired service sets id_ on data and hands it
\* to repository.update(data).
ServiceUpdate ==
    \E id \in Keys, o \in Objs :
       LET hp == [heap EXCEPT ![o] = set_id_attribute_value(id, heap[o])] IN
       \/ /\ backing = "none"
          /\ ServiceApply("update", o, id)
       \/ /\ backing = "mem"
          /\ MemApply("update", model_type, o, id,
                      MemUpdateOp(collection[model_type], hp, o, clock))
          /\ UNCHANGED ids
       \/ /\ backing = "sql"
          /\ SqlApply("update", o, id,
                      SqlUpdateOp(table[model_type], hp, attached, o, clock, uuid4(ids + 1)))

\* A service of each kind over a store that is empty or holds one record, and
\* one entity in the caller's hands.
InitService ==
    /\ InitProcess
    /\ backing \in {"none", "mem", "sql"}
    /\ model_type = "AuditBase"
    /\ clock = MaxClock
    /\ ids = 0
    /\ attached = {}
    /\ calls = <<>>
    /\ last = Result("new", 2, None, "ok", 0, NoVal)
    /\ \E seeded \in BOOLEAN, d \in NewDicts("AuditBase", 2, CallerIds) :
         LET row == [id |-> 1, name |-> 1, created |-> 1, updated |-> 1]
             kept == IF seeded THEN [k \in {1} |-> 1] ELSE EmptyMap
             rows == IF seeded THEN [k \in {1} |-> row] ELSE EmptyMap
         IN  /\ heap = <<[cls |-> "AuditBase", d |-> Put(row, "_sa_instance_state", 1)],
                         [cls |-> "AuditBase", d |-> d]>>
             /\ collection = [c \in ModelTypes |->
                                 IF c = "AuditBase" /\ backing = "mem" THEN kept ELSE EmptyMap]
             /\ table = [c \in ModelTypes |->
                            IF c = "AuditBase" /\ backing = "sql" THEN rows ELSE EmptyMap]

NextService == ServiceGet \/ ServiceDelete \/ ServiceUpdate

SpecService == InitService /\ [][NextService]_vars

\* ------------------------------------------------- service identity map
\* Where a class statement `class <name>(Service)` stands: its module and,
\* for a class nested in another, the enclosing scope.  __name__ is the bare
\* name in either case.
Decls == [module : {"app.authors", "app.books"}, scope : {"", "Outer"}, name : {"Service"}]

\* An identity taken from the class object (its address in the process).
ServiceId_Address(cls) ==
    cls.module \o "." \o cls.name \o (IF cls.addr[1] = 1 THEN "@1" ELSE "@2")

\* cls.__id__ = f"{cls.__module__}.{cls.__name__}"
ServiceId(cls) == cls.module \o "." \o cls.name

\* Service.__init_subclass__ runs when the class statement d is executed in
\* process p: the new class gets its __id__ and is put in the map under it.
DefineService ==
    \E p \in Procs, d \in Decls :
       /\ Len(classes[p]) < MaxClasses
       /\ \A c \in 1..Len(classes[p]) :
             <<classes[p][c].module, classes[p][c].scope>> # <<d.module, d.scope>>
       /\ LET c == Len(classes[p]) + 1
              cls == [module |-> d.module, scope |-> d.scope, name |-> d.name,
                      addr |-> <<p, c>>]
              id == ServiceId(cls)
          IN  /\ classes' = [classes EXCEPT ![p] = Append(@,
                                [module |-> d.module, scope |-> d.scope, name |-> d.name,
                                 addr |-> <<p, c>>, id |-> id])]
              /\ services' = [services EXCEPT ![p] = Put(@, id, c)]
              /\ last' = [op |-> "define", proc |-> p, cls |-> c, id |-> id]
       /\ UNCHANGED <<backing, model_type, heap, collection, table, attached, calls, clock, ids>>
       /\ UNCHANGED <<queue, types, dicts, entity, schemas, repos, txn>>

\* service.enqueue_background_task(method_name, **kwargs): the task carries
\* the __id__ of the service's class.
Enqueue ==
    \E p \in Procs :
       \E c \in 1..Len(classes[p]) :
          /\ Len(queue) < MaxQueue
          /\ queue' = Append(queue, [service_type_id |-> classes[p][c].id,
                                     service_method_name |-> "receive_callback"])
          /\ last' = [op |-> "enqueue", proc |-> p, cls |-> c, id |-> classes[p][c].id]
          /\ UNCHANGED <<backing, model_type, heap, collection, table, attached, calls, clock, ids>>
          /\ UNCHANGED <<services, classes, types, dicts, entity, schemas, repos, txn>>

\* A dispatch that answers an unknown identity with nothing done.
make_service_callback_Quiet(map, task) ==
    IF task.service_type_id \in DOMAIN map
    THEN [outcome |-> "ok", constructed |-> map[task.service_type_id],
          invoked |-> map[task.service_type_id]]
    ELSE [outcome |-> "ok", constructed |-> 0, invoked |-> 0]

\* make_service_callback(ctx, service_type_id, service_method_name, **kwargs):
\* the type is looked up in the identity map (KeyError when absent), an
\* instance is constructed and the named method invoked on it.
make_service_callback(map, task) ==
    IF task.service_type_id \in DOMAIN map
    THEN [outcome |-> "ok", constructed |-> map[task.service_type_id],
          invoked |-> map[task.service_type_id]]
    ELSE [outcome |-> "KeyError", constructed |-> 0, invoked |-> 0]

\* A worker process takes the next task of the queue.
Dispatch ==
    /\ queue # <<>>
    /\ \E p \in Procs :
         LET out == make_service_callback(services[p], Head(queue))
         IN  last' = [op |-> "dispatch", proc |-> p, id |-> Head(queue).service_type_id,
                      outcome |-> out.outcome, constructed |-> out.constructed,
                      invoked |-> out.invoked]
    /\ queue' = Tail(queue)
    /\ UNCHANGED <<backing, model_type, heap, collection, table, attached, calls, clock, ids>>
    /\ UNCHANGED <<services, classes, types, dicts, entity, schemas, repos, txn>>

\* Processes that have defined no service class yet; the operations of the
\* generic service run beside the definitions.
InitIdentity ==
    /\ InitProcess
    /\ backing = "none"
    /\ model_type = "Base"
    /\ heap = <<[cls |-> "Base", d |-> [_sa_instance_state |-> 1]]>>
    /\ collection = [c \in ModelTypes |-> EmptyMap]
    /\ table = [c \in ModelTypes |-> EmptyMap]
    /\ attached = {}
    /\ calls = <<>>
    /\ clock = 1
    /\ ids = 0
    /\ last = Result("init", 0, None, "ok", 0, NoVal)

NextIdentity == DefineService \/ Enqueue \/ Dispatch \/ NextService

SpecIdentity == InitIdentity /\ [][NextIdentity]_<<vars, pvars>>

\* ------------------------------------- repository classes (in-memory)
\* cls.collection, self.collection: the attribute of the class itself or of
\* the nearest base class that has one (0: GenericMockRepository itself
\* declares none).
RECURSIVE CollectionOf(_, _)
CollectionOf(tps, t) ==
    IF t = 0 THEN 0
    ELSE IF tps[t].own # 0 THEN tps[t].own
    ELSE CollectionOf(tps, tps[t].parent)

\* A parametrization that hands out the dict of the first one.
class_getitem_Shared(tps, dcts, item) ==
    [types |-> Append(tps, [model_type |-> item, own |-> 1, parent |-> 0]),
     dicts |-> IF dcts = <<>> THEN <<EmptyMap>> ELSE dcts]

\* GenericMockRepository.__class_getitem__(item): a new class with
\* {"collection": {}, "model_type": item}.
class_getitem(tps, dcts, item) ==
    [types |-> Append(tps, [model_type |-> item, own |-> Len(dcts) + 1, parent |-> 0]),
     dicts |-> Append(dcts, EmptyMap)]

\* GenericMockRepository[item] is evaluated.
ClassGetItem ==
    /\ Len(types) < MaxTypes
    /\ Len(dicts) < MaxDicts
    /\ \E item \in ModelTypes :
         /\ types' = class_getitem(types, dicts, item).types
         /\ dicts' = class_getitem(types, dicts, item).dicts
         /\ last' = [op |-> "class_getitem", type |-> Len(types) + 1, inst |-> 0, outcome |-> "ok"]
    /\ UNCHANGED <<backing, model_type, heap, collection, table, attached, calls, clock, ids>>
    /\ UNCHANGED <<services, classes, queue, entity, schemas, repos, txn>>

\* class BookRepository(GenericMockRepository[Book]): model_type = Book
Subclass ==
    /\ Len(types) < MaxTypes
    /\ \E t \in 1..Len(types) :
         /\ types' = Append(types, [model_type |-> types[t].model_type, own |-> 0,
                                    parent |-> t])
         /\ last' = [op |-> "subclass", type |-> Len(types) + 1, inst |-> 0, outcome |-> "ok"]
    /\ UNCHANGED <<backing, model_type, heap, collection, table, attached, calls, clock, ids>>
    /\ UNCHANGED <<services, classes, queue, dicts, entity, schemas, repos, txn>>

\* The entities of the heap a repository of class t is meant for.
Entities(t) == {o \in Objs : heap[o].cls = types[t].model_type}

\* cls.seed_collection(instances): cls.collection[id of instance] = instance,
\* one instance after the other.
SeedCollection ==
    \E t \in 1..Len(types) :
       \E S \in (SUBSET Entities(t)) \ {{}} :
          LET r == CollectionOf(types, t)
              key(o) == get_id_attribute_value(heap[o])
              hit(k) == {o \in S : key(o) = k}
              latest(k) == CHOOSE o \in hit(k) : \A x \in hit(k) : x <= o
          IN  /\ dicts' = [dicts EXCEPT ![r] =
                             [k \in (DOMAIN @) \cup {key(o) : o \in S} |->
                                 IF hit(k) # {} THEN latest(k) ELSE @[k]]]
              /\ last' = [op |-> "seed_collection", type |-> t, inst |-> 0, outcome |-> "ok"]
              /\ UNCHANGED <<backing, model_type, heap, collection, table, attached, calls,
                             clock, ids>>
              /\ UNCHANGED <<services, classes, queue, types, entity, schemas, repos, txn>>

\* cls.clear_collection(): cls.collection = {}
ClearCollection ==
    /\ Len(dicts) < MaxDicts
    /\ \E t \in 1..Len(types) :
         /\ types' = [types EXCEPT ![t].own = Len(dicts) + 1]
         /\ dicts' = Append(dicts, EmptyMap)
         /\ last' = [op |-> "clear_collection", type |-> t, inst |-> 0, outcome |-> "ok"]
    /\ UNCHANGED <<backing, model_type, heap, collection, table, attached, calls, clock, ids>>
    /\ UNCHANGED <<services, classes, queue, entity, schemas, repos, txn>>

\* The instances of repository class t: 0 stands for any instance without a
\* `collection` attribute of its own, r > 0 for one that has assigned it.
InstancesOf(t) == {0} \cup {r \in 1..Len(repos) : repos[r].type = t}

\* self.collection on an instance of class t: the instance's attribute if it
\* has one, the class's otherwise.
SelfCollection(tps, rps, t, r) == IF r = 0 THEN CollectionOf(tps, t) ELSE rps[r].own

\* One call on an instance of repository class t takes effect on the dict
\* its self.collection is.
TypeApply(op, t, r, out) ==
    /\ dicts' = [dicts EXCEPT ![SelfCollection(types, repos, t, r)] = out.coll]
    /\ heap' = out.heap
    /\ last' = [op |-> op, type |-> t, inst |-> r, outcome |-> out.outcome]
    /\ UNCHANGED <<backing, model_type, collection, table, attached, calls, clock>>
    /\ UNCHANGED <<services, classes, queue, types, entity, schemas, repos, txn>>

TypeAdd ==
    \E t \in 1..Len(types) :
       \E r \in InstancesOf(t), o \in Entities(t) :
          LET out == MemAddOp(dicts[SelfCollection(types, repos, t, r)], heap, o, FALSE, clock,
                              uuid4(ids + 1))
          IN  /\ TypeApply("add", t, r, out)
              /\ ids' = IF out.outcome = "ok" THEN ids + 1 ELSE ids
              /\ ids' <= MaxIds

TypeUpdate ==
    \E t \in 1..Len(types) :
       \E r \in InstancesOf(t), o \in Entities(t) :
          /\ TypeApply("update", t, r,
                       MemUpdateOp(dicts[SelfCollection(types, repos, t, r)], heap, o, clock))
          /\ UNCHANGED ids

TypeUpsert ==
    \E t \in 1..Len(types) :
       \E r \in InstancesOf(t), o \in Entities(t) :
          /\ TypeApply("upsert", t, r,
                       MemUpsertOp(dicts[SelfCollection(types, repos, t, r)], heap, o, clock,
                                   uuid4(ids + 1)))
          /\ UNCHANGED ids

TypeDelete ==
    \E t \in 1..Len(types) :
       \E r \in InstancesOf(t), id \in Keys :
          /\ TypeApply("delete", t, r,
                       MemDeleteOp(dicts[SelfCollection(types, repos, t, r)], heap, id))
          /\ UNCHANGED ids

\* filter_collection_by_kwargs(**kwargs) on an instance of class t: the dict
\* built from self.collection is assigned to self.collection, an attribute of
\* the instance from then on.
TypeFilterCollectionByKwargs ==
    \E t \in 1..Len(types) :
       \E r \in InstancesOf(t), kwseq \in {<<>>, <<<<"name", 1>>>>, <<<<"nope", 1>>>>} :
          LET out == MemFilterCollectionByKwargsOp(dicts[SelfCollection(types, repos, t, r)],
                                                   heap, kwseq)
              made == Len(dicts) + 1
          IN  /\ IF out.outcome = "ok"
                 THEN /\ Len(dicts) < MaxDicts
                      /\ r = 0 => Len(repos) < MaxRepos
                      /\ dicts' = Append(dicts, out.coll)
                      /\ repos' = IF r = 0 THEN Append(repos, [type |-> t, own |-> made])
                                  ELSE [repos EXCEPT ![r].own = made]
                 ELSE UNCHANGED <<dicts, repos>>
              /\ last' = [op |-> "filter_collection_by_kwargs", type |-> t,
                          inst |-> IF r = 0 /\ out.outcome = "ok" THEN Len(repos) + 1 ELSE r,
                          outcome |-> out.outcome]
              /\ UNCHANGED <<backing, model_type, heap, collection, table, attached, calls,
                             clock, ids>>
              /\ UNCHANGED <<services, classes, queue, types, entity, schemas, txn>>

\* The two parametrizations the fixtures make, one per entity type, their
\* tables empty; the caller holds entities of both types, with and without
\* identifier.
InitTypes ==
    /\ services = [p \in Procs |-> EmptyMap]
    /\ classes = [p \in Procs |-> <<>>]
    /\ queue = <<>>
    /\ types = class_getitem(class_getitem(<<>>, <<>>, "AuditBase").types,
                             class_getitem(<<>>, <<>>, "AuditBase").dicts, "Base").types
    /\ dicts = <<EmptyMap, EmptyMap>>
    /\ entity = <<>>
    /\ schemas = EmptyMap
    /\ repos = <<>>
    /\ txn = NoTxn
    /\ backing = "mem"
    /\ model_type = "AuditBase"
    /\ heap = <<[cls |-> "AuditBase", d |-> [_sa_instance_state |-> 1, id |-> 1]],
                [cls |-> "AuditBase", d |-> [_sa_instance_state |-> 2, name |-> 1]],
                [cls |-> "Base", d |-> [_sa_instance_state |-> 3, id |-> 1, name |-> 2]]>>
    /\ collection = [c \in ModelTypes |-> EmptyMap]
    /\ table = [c \in ModelTypes |-> EmptyMap]
    /\ attached = {}
    /\ calls = <<>>
    /\ clock = 1
    /\ ids = 0
    /\ last = [op |-> "init", type |-> 0, inst |-> 0, outcome |-> "ok"]

NextTypes ==
    \/ ClassGetItem \/ Subclass \/ SeedCollection \/ ClearCollection
    \/ TypeAdd \/ TypeUpdate \/ TypeUpsert \/ TypeDelete \/ TypeFilterCollectionByKwargs

SpecTypes == InitTypes /\ [][NextTypes]_<<vars, pvars>>

\* ------------------------------------------------------ DTO derivation
\* A declared field: its name, whether it is a mapped attribute, its DTO
\* mark and its default (none, a scalar value, a zero-argument factory, or an
\* expression the database evaluates).
Field(name, mapped, mark, default) ==
    [name |-> name, mapped |-> mapped, mark |-> mark, default |-> default]
Default(kind, value) == [kind |-> kind, value |-> value]

\* Author(orm.AuditBase): id, created and updated are READ_ONLY and filled
\* by uuid4 / datetime.now; name and dob carry no mark.
Author ==
    <<Field("name", TRUE, "none", Default("none", None)),
      Field("dob", TRUE, "none", Default("none", None)),
      Field("id", TRUE, "read-only", Default("factory", None)),
      Field("created", TRUE, "read-only", Default("factory", None)),
      Field("updated", TRUE, "read-only", Default("factory", None))>>

\* class Model(base) with an id and one field, as the tests declare it.
Models ==
    {<<Field("id", TRUE, "none", Default("none", None)), Field("field", mapped, mark, default)>> :
        mapped \in BOOLEAN, mark \in {"none", "read-only", "write-only", "private"},
        default \in {Default("none", None), Default("scalar", 3), Default("factory", None),
                     Default("server", None)}}

\* The field rule with the exclusion set applied to WRITE alone.
FieldInSchema_WriteExclude(f, purpose, exclude) ==
    /\ f.mapped
    /\ f.mark # "private"
    /\ ~(purpose = "write" /\ f.mark = "read-only")
    /\ ~(purpose = "read" /\ f.mark = "write-only")
    /\ ~(purpose = "write" /\ f.name \in exclude)

\* The field rule that lets a PRIVATE field into a READ schema.
FieldInSchema_PrivateRead(f, purpose, exclude) ==
    /\ f.mapped
    /\ ~(purpose = "write" /\ f.mark \in {"private", "read-only"})
    /\ ~(purpose = "read" /\ f.mark = "write-only")
    /\ f.name \notin exclude

\* Step 1 of the derivation: a field is skipped if it is PRIVATE, if its
\* mark does not fit the purpose, if it is excluded, or if it is not mapped.
FieldInSchema(f, purpose, exclude) ==
    /\ f.mapped
    /\ f.mark # "private"
    /\ ~(purpose = "write" /\ f.mark = "read-only")
    /\ ~(purpose = "read" /\ f.mark = "write-only")
    /\ f.name \notin exclude

\* A derivation that drops a default it cannot compute.
factory_DropDefault(fields, purpose, exclude) ==
    LET kept == SelectSeq(fields, LAMBDA f : FieldInSchema(f, purpose, exclude))
        default(f) == IF purpose = "read" \/ f.default.kind = "server"
                      THEN Default("none", None) ELSE f.default
    IN  [outcome |-> "ok", fields |-> {kept[i].name : i \in 1..Len(kept)},
         defaults |-> {<<kept[i].name, default(kept[i])>> : i \in 1..Len(kept)}]

\* A derivation that takes an entity without purpose for a READ one.
factory_ReadByDefault(fields, purpose, exclude) ==
    LET use == IF purpose = "missing" THEN "read" ELSE purpose
        kept == SelectSeq(fields, LAMBDA f : FieldInSchema(f, use, exclude))
        default(f) == IF use = "read" THEN Default("none", None) ELSE f.default
    IN  IF use = "write" /\ \E i \in 1..Len(kept) : kept[i].default.kind = "server"
        THEN [outcome |-> "ValueError", fields |-> {}, defaults |-> {}]
        ELSE [outcome |-> "ok", fields |-> {kept[i].name : i \in 1..Len(kept)},
              defaults |-> {<<kept[i].name, default(kept[i])>> : i \in 1..Len(kept)}]

\* The derivation of a schema.  An entity that comes without a purpose
\* (FromMapped[Author], no Annotated) fails it (ValueError).  Otherwise the
\* schema has the fields kept by step 1, each with its default (step 3): for
\* WRITE a scalar or a factory is kept and a default of the database fails
\* the derivation (ValueError); READ applies none.
factory(fields, purpose, exclude) ==
    LET kept == SelectSeq(fields, LAMBDA f : FieldInSchema(f, purpose, exclude))
        default(f) == IF purpose = "read" THEN Default("none", None) ELSE f.default
    IN  IF purpose = "missing"
        THEN [outcome |-> "ValueError", fields |-> {}, defaults |-> {}]
        ELSE IF purpose = "write" /\ \E i \in 1..Len(kept) : kept[i].default.kind = "server"
        THEN [outcome |-> "ValueError", fields |-> {}, defaults |-> {}]
        ELSE [outcome |-> "ok", fields |-> {kept[i].name : i \in 1..Len(kept)},
              defaults |-> {<<kept[i].name, default(kept[i])>> : i \in 1..Len(kept)}]

\* dto.FromMapped[Annotated[entity, dto.config(purpose, exclude)]], or
\* dto.FromMapped[entity] (purpose "missing"): the schema is derived once per
\* (purpose, exclusion set) and kept.
FromMapped ==
    \E purpose \in {"read", "write", "missing"},
       exclude \in SUBSET {entity[1].name, entity[2].name} :
       LET key == <<purpose, exclude>>
           out == IF key \in DOMAIN schemas THEN schemas[key]
                  ELSE factory(entity, purpose, exclude)
       IN  /\ purpose = "missing" => exclude = {}
           /\ schemas' = IF out.outcome = "ok" THEN Put(schemas, key, out) ELSE schemas
           /\ last' = [op |-> "FromMapped", purpose |-> purpose, exclude |-> exclude,
                        outcome |-> out.outcome, fields |-> out.fields,
                        defaults |-> out.defaults]
           /\ UNCHANGED <<backing, model_type, heap, collection, table, attached, calls,
                          clock, ids>>
           /\ UNCHANGED <<services, classes, queue, types, dicts, entity, repos, txn>>

\* An entity type is declared; no schema has been derived from it.
InitDto ==
    /\ services = [p \in Procs |-> EmptyMap]
    /\ classes = [p \in Procs |-> <<>>]
    /\ queue = <<>>
    /\ types = <<>>
    /\ dicts = <<>>
    /\ entity \in {Author} \cup Models
    /\ schemas = EmptyMap
    /\ repos = <<>>
    /\ txn = NoTxn
    /\ backing = "none"
    /\ model_type = "Base"
    /\ heap = <<>>
    /\ collection = [c \in ModelTypes |-> EmptyMap]
    /\ table = [c \in ModelTypes |-> EmptyMap]
    /\ attached = {}
    /\ calls = <<>>
    /\ clock = 1
    /\ ids = 0
    /\ last = [op |-> "init"]

SpecDto == InitDto /\ [][FromMapped]_<<vars, pvars>>

\* ----------------------------------------------------------------- claims
AllKeys == CallerIds \cup {uuid4(n) : n \in 1..MaxIds} \cup {None}

\* The identifiers the wired repository holds a record for.
Store == IF backing = "mem" THEN DOMAIN collection[model_type] ELSE DOMAIN table[model_type]

\* What get(id) of the wired repository answers in the current state.
RepoGetAt(coll, tbl, hp, att, id) ==
    IF backing = "mem"
    THEN LET out == MemGetOp(coll[model_type], hp, id)
         IN  [outcome |-> out.outcome, ret |-> out.ret, val |-> ValOf(hp, out.ret)]
    ELSE LET out == SqlGetOp(tbl[model_type], hp, att, id)
         IN  [outcome |-> out.outcome, ret |-> out.ret, val |-> out.val]
RepoGet(id) == RepoGetAt(collection, table, heap, attached, id)
\* ... and in the state the step leads to.
RepoGetNext(id) == RepoGetAt(collection', table', heap', attached', id)

Public(d) == {k \in DOMAIN d : ~IsPrivate(k)}
ServerSet == {"id", "created", "updated"}

\* C1: in-memory, add(E) of an entity without identifier succeeds, get of the
\* assigned identifier returns E itself, E's other fields are as the caller
\* set them, the identifier is the one the id factory produced, and created
\* and updated (on a type with audit columns) are both set.
C1_AddThenGet ==
    [][(backing = "mem" /\ last'.op = "add"
          /\ get_id_attribute_value(heap[last'.obj]) = None)
       => LET o == last'.obj
              id == GetAttr(heap'[o], "id")
              got == RepoGetNext(id)
          IN  /\ last'.outcome = "ok"
              /\ last'.ret = o
              /\ id # None
              /\ id = uuid4(ids + 1)
              /\ got.outcome = "ok"
              /\ got.ret = o
              /\ (DOMAIN heap'[o].d) \ ServerSet = (DOMAIN heap[o].d) \ ServerSet
              /\ \A k \in (DOMAIN heap[o].d) \ ServerSet : got.val[k] = heap[o].d[k]
              /\ HasAudit(heap[o].cls) =>
                    /\ {"created", "updated"} \subseteq DOMAIN got.val
                    /\ got.val["created"] # None
                    /\ got.val["updated"] # None
                    /\ got.val["created"] = clock
    ]_vars

C1_Witness ==
    /\ backing = "mem"
    /\ last.op = "add"
    /\ last.outcome = "ok"
    /\ HasAudit(model_type)
    /\ "name" \in DOMAIN last.val
    /\ RepoGet(last.val["id"]).ret = last.obj

\* The identifier an operation was asked about: the key of get and delete,
\* the identifier the entity of update carried when the call was made.
Target(lst, hp) ==
    IF lst.op \in {"get", "delete"} THEN lst.key ELSE get_id_attribute_value(hp[lst.obj])

\* C2: get(id) and update(entity carrying id) for an id the backing does not
\* hold fail with NotFoundError in both backings and change nothing: no
\* record added or modified, the passed entity not stamped, and in the SQL
\* backing no merge and no flush.
C2_MissingGetUpdate ==
    [][(last'.op \in {"get", "update"} /\ Target(last', heap) \notin Store)
       => /\ last'.outcome = "NotFoundError"
          /\ heap' = heap
          /\ collection' = collection
          /\ table' = table
          /\ backing = "sql" =>
                \A i \in 1..Len(calls') : calls'[i] \notin {"merge", "flush", "add"}
    ]_vars

C2_Witness ==
    /\ backing = "sql"
    /\ last.op = "update"
    /\ last.outcome = "NotFoundError"
    /\ get_id_attribute_value(heap[last.obj]) # None
    /\ Store # {}

\* C3: delete(id) for an id the backing does not hold fails with
\* NotFoundError, in the in-memory backing as in the SQL backing, and removes
\* nothing.
C3_MissingDelete ==
    [][(last'.op = "delete" /\ last'.key \notin Store)
       => /\ last'.outcome = "NotFoundError"
          /\ collection' = collection
          /\ table' = table
    ]_vars

\* C4: delete(id) of a stored id returns the record stored under it and
\* removes exactly that record: get(id) then fails with NotFoundError and
\* get of every other identifier answers as before.
C4_DeleteStored ==
    [][(last'.op = "delete" /\ last'.key \in Store)
       => /\ last'.outcome = "ok"
          /\ last'.ret = RepoGet(last'.key).ret
          /\ last'.val = RepoGet(last'.key).val
          /\ RepoGetNext(last'.key).outcome = "NotFoundError"
          /\ \A k \in AllKeys \ {last'.key} : RepoGetNext(k) = RepoGet(k)
    ]_vars

C4_Witness ==
    /\ last.op = "delete"
    /\ last.outcome = "ok"
    /\ Store # {}
    /\ last.key \notin Store
    /\ backing = "mem"

\* C5: in-memory add(E) of an entity that carries an identifier fails with
\* ConflictError and leaves the table and E as they were; SQL add of an
\* entity with an identifier no row has yet succeeds and stores it under
\* that identifier.
C5_AddIdentified ==
    [][(last'.op = "add" /\ get_id_attribute_value(heap[last'.obj]) # None)
       => LET id == get_id_attribute_value(heap[last'.obj]) IN
          IF backing = "mem"
          THEN /\ last'.outcome = "ConflictError"
               /\ heap' = heap
               /\ collection' = collection
          ELSE id \notin Store =>
                 /\ last'.outcome = "ok"
                 /\ Store' = Store \cup {id}
                 /\ RepoGetNext(id).val["id"] = id
                 /\ last'.val["id"] = id
    ]_vars

C5_Witness ==
    /\ backing = "mem"
    /\ last.op = "add"
    /\ last.outcome = "ConflictError"
    /\ Store # {}

\* C6: upsert(E) with E's identifier stored gives the returned entity and the
\* store that update(E) gives; with the identifier not stored it gives what
\* add(E) gives with the identifier E carries kept as the key.
C6_UpsertEquiv ==
    [][(last'.op = "upsert")
       => LET o == last'.obj
              id == get_id_attribute_value(heap[o])
          IN  IF backing = "mem"
              THEN LET ref == IF id \in Store
                              THEN MemUpdateOp(collection[model_type], heap, o, clock)
                              ELSE MemAddOp(collection[model_type], heap, o, TRUE, clock,
                                            uuid4(ids + 1))
                   IN  /\ last'.outcome = ref.outcome
                       /\ last'.ret = ref.ret
                       /\ heap' = ref.heap
                       /\ collection'[model_type] = ref.coll
                       /\ id \notin Store => (id \in Store' /\ collection'[model_type][id] = o)
              ELSE LET ref == IF id \in Store
                              THEN SqlUpdateOp(table[model_type], heap, attached, o, clock,
                                               uuid4(ids + 1))
                              ELSE SqlAddOp(table[model_type], heap, attached, o, clock,
                                            uuid4(ids + 1))
                   IN  /\ last'.outcome = ref.outcome
                       /\ \A k \in Public(ref.val) : last'.val[k] = ref.val[k]
                       /\ Public(last'.val) = Public(ref.val)
                       /\ table'[model_type] = ref.table
                       /\ (id # None /\ id \notin Store) => (id \in Store' /\ last'.val["id"] = id)
    ]_vars

C6_Witness ==
    /\ last.op = "upsert"
    /\ last.outcome = "ok"
    /\ backing = "sql"
    /\ Cardinality(Store) = 2

\* C7: a successful in-memory update(data) returns the record stored under
\* data's identifier, not data; every public attribute of data is copied onto
\* it, the attributes data does not carry keep their stored values, the
\* record stays under its key and no other object changes.
C7_MemUpdate ==
    [][(backing = "mem" /\ last'.op = "update" /\ last'.outcome = "ok")
       => LET o == last'.obj
              id == get_id_attribute_value(heap[o])
              item == collection[model_type][id]
          IN  /\ last'.ret = item
              /\ \A k \in Public(heap'[o].d) : GetAttr(heap'[item], k) = heap'[o].d[k]
              /\ \A k \in (DOMAIN heap[item].d) \ Public(heap'[o].d) :
                    k \in DOMAIN heap'[item].d /\ heap'[item].d[k] = heap[item].d[k]
              /\ DOMAIN heap'[item].d = (DOMAIN heap[item].d) \cup Public(heap'[o].d)
              /\ collection' = collection
              /\ \A p \in Objs \ {item, o} : heap'[p] = heap[p]
              /\ \A k \in Public(heap[o].d) : heap'[o].d[k] = heap[o].d[k] \/ k = "updated"
    ]_vars

C7_Witness ==
    /\ backing = "mem"
    /\ last.op = "update"
    /\ last.outcome = "ok"
    /\ last.ret # last.obj
    /\ "name" \in DOMAIN heap[last.obj].d
    /\ heap[last.ret].d["_sa_instance_state"] = last.ret

\* ---- queries
AsSet(seq) == {seq[i] : i \in 1..Len(seq)}
StoredRows == AsSet(RowsOf(table[model_type]))
MatchesKwargs(row, kwargs) == \A k \in DOMAIN kwargs : row[k] = kwargs[k]
RemoveAt(seq, i) == SubSeq(seq, 1, i - 1) \o SubSeq(seq, i + 1, Len(seq))

\* The call of last, made again with other filters.
Again(op, filters, kwargs) ==
    CASE op = "list" -> SqlListOp(table[model_type], filters, kwargs)
      [] op = "list_and_count" -> SqlListAndCountOp(table[model_type], filters, kwargs)
      [] OTHER -> SqlCountOp(table[model_type], filters, kwargs)

OneRange(lst) ==
    /\ lst.op = "list"
    /\ Len(lst.filters) = 1
    /\ lst.filters[1].type = "BeforeAfter"
    /\ model_getattr(lst.filters[1].field_name)
    /\ \A k \in DOMAIN lst.kwargs : model_getattr(k)

\* C8: list with RangeFilter(field, before=B, after=A), both bounds given,
\* returns exactly the stored records with A < field < B.
C8_RangeBoth ==
    (OneRange(last) /\ last.filters[1].before # None /\ last.filters[1].after # None)
    => LET f == last.filters[1] IN
       /\ last.outcome = "ok"
       /\ AsSet(last.rows) =
             {r \in StoredRows : /\ r[f.field_name] < f.before
                                 /\ r[f.field_name] > f.after
                                 /\ MatchesKwargs(r, last.kwargs)}

\* C9: a RangeFilter with one bound applies that inequality alone: only
\* after=A selects the records with field > A, only before=B those with
\* field < B, and with neither bound every record is selected.
C9_RangeOneBound ==
    (OneRange(last) /\ (last.filters[1].before = None \/ last.filters[1].after = None))
    => LET f == last.filters[1] IN
       /\ last.outcome = "ok"
       /\ AsSet(last.rows) =
             {r \in StoredRows : /\ f.before # None => r[f.field_name] < f.before
                                 /\ f.after # None => r[f.field_name] > f.after
                                 /\ MatchesKwargs(r, last.kwargs)}

IsQuery(lst) == lst.op \in {"list", "list_and_count", "count"}

\* C10: a MembershipFilter with an empty value set is a no-op: list,
\* list_and_count and count answer as the same call without that filter.  With
\* a non-empty set, list and list_and_count return exactly the records whose
\* field is one of the values (and that match the keyword filters), and
\* count, called with that filter alone, counts exactly those records.
C10_Membership ==
    IsQuery(last) =>
       /\ \A i \in 1..Len(last.filters) :
             (last.filters[i].type = "CollectionFilter" /\ last.filters[i].values = {})
             => LET ref == Again(last.op, RemoveAt(last.filters, i), last.kwargs)
                IN  /\ last.outcome = ref.outcome
                    /\ last.rows = ref.rows
                    /\ last.count = ref.count
       /\ (/\ Len(last.filters) = 1
           /\ last.filters[1].type = "CollectionFilter"
           /\ last.filters[1].values # {}
           /\ model_getattr(last.filters[1].field_name)
           /\ \A k \in DOMAIN last.kwargs : model_getattr(k))
          => LET f == last.filters[1]
                 sel == {r \in StoredRows : r[f.field_name] \in f.values}
             IN  /\ last.outcome = "ok"
                 /\ last.op \in {"list", "list_and_count"} =>
                       /\ AsSet(last.rows) = {r \in sel : MatchesKwargs(r, last.kwargs)}
                       /\ Len(last.rows) = Cardinality(AsSet(last.rows))
                 /\ last.op = "list_and_count" => last.count = Len(last.rows)
                 /\ (last.op = "count" /\ last.kwargs = EmptyMap) =>
                       last.count = Cardinality(sel)

C10_Witness ==
    /\ last.op = "list"
    /\ last.filters = <<CollectionFilter("name", {})>>
    /\ last.kwargs = EmptyMap
    /\ Len(last.rows) = 2
    /\ \E r \in StoredRows : r["name"] = None

Min(a, b) == IF a < b THEN a ELSE b
Max(a, b) == IF a > b THEN a ELSE b
IsPage(f) == f.type = "LimitOffset"
NoPage(filters) == SelectSeq(filters, LAMBDA f : ~IsPage(f))

\* C11: list_and_count with a PageFilter(limit=L, offset=O) and N records
\* matching the other filters returns min(L, max(0, N - O)) records and a
\* count equal to N, whatever L, O and N are.
C11_PageCount ==
    (/\ last.op = "list_and_count"
     /\ Len(last.filters) = 1
     /\ IsPage(last.filters[1])
     /\ \A k \in DOMAIN last.kwargs : model_getattr(k))
    => LET f == last.filters[1]
           N == Cardinality({r \in StoredRows : MatchesKwargs(r, last.kwargs)})
       IN  /\ last.outcome = "ok"
           /\ Len(last.rows) = Min(f.limit, Max(0, N - f.offset))
           /\ last.count = N

\* C12: count(*filters, **kwargs) is the number of records list returns for
\* the same filters and keyword filters with every PageFilter removed.
C12_CountAsList ==
    (last.op = "count" /\ last.outcome = "ok")
    => LET ref == Again("list", NoPage(last.filters), last.kwargs)
       IN  /\ ref.outcome = "ok"
           /\ last.count = Len(ref.rows)

\* The positional filters are of the three known types and they and the keyword
\* filters name attributes of the model.
WellFormed(filters, kwargs) ==
    /\ \A i \in 1..Len(filters) :
          /\ filters[i].type \in {"BeforeAfter", "CollectionFilter", "LimitOffset"}
          /\ filters[i].type # "LimitOffset" => model_getattr(filters[i].field_name)
    /\ \A k \in DOMAIN kwargs : model_getattr(k)

\* C13: for the same store content and the same filters the in-memory list
\* returns the same records as the SQL list: the stored records that satisfy
\* every supplied range, membership and equality filter.
C13_MemListAsSql ==
    (backing = "mem" /\ last.op = "list" /\ WellFormed(last.filters, last.kwargs))
    => LET ref == SqlListOp(TableOf(collection[model_type], heap), last.filters, last.kwargs)
       IN  /\ last.outcome = ref.outcome
           /\ AsSet(last.rows) = AsSet(ref.rows)

Perms(n) == {f \in [1..n -> 1..n] : \A i, j \in 1..n : f[i] = f[j] => i = j}
Permuted(seq, f) == [i \in 1..Len(seq) |-> seq[f[i]]]
Pages(filters) == SelectSeq(filters, IsPage)
KnownTypes(filters) ==
    \A i \in 1..Len(filters) :
       filters[i].type \in {"BeforeAfter", "CollectionFilter", "LimitOffset"}
\* What a statement asks for: its WHERE clauses as a set, LIMIT and OFFSET; the
\* exception when building it has raised.
Asks(sel) ==
    IF sel.raised # "ok" THEN <<{}, None, None, sel.raised>>
    ELSE <<AsSet(sel.wheres), sel.limit, sel.offset, sel.raised>>

\* C14: the result of SQL list does not depend on where the PageFilter stands
\* among the positional filters nor on the order of the range and membership
\* filters; limit and offset are applied last, to the records that remain
\* after all range, membership and equality filters.
C14_OrderFree ==
    (/\ last.op = "list"
     /\ KnownTypes(last.filters)
     /\ Len(Pages(last.filters)) <= 1)
    => /\ \A f \in Perms(Len(last.filters)) :
             LET other == Permuted(last.filters, f)
                 ref == Again("list", other, last.kwargs)
             IN  /\ last.outcome = ref.outcome
                 /\ last.rows = ref.rows
                 /\ Asks(filter_for_list(other, SelectOf("model")).sel)
                       = Asks(filter_for_list(last.filters, SelectOf("model")).sel)
       /\ (last.outcome = "ok" /\ Len(Pages(last.filters)) = 1)
          => LET pg == Pages(last.filters)[1]
                 all == Again("list", NoPage(last.filters), last.kwargs).rows
             IN  last.rows = Page(all, apply_limit_offset_pagination(pg.limit, pg.offset,
                                                                     SelectOf("model")))

C14_Witness ==
    /\ last.op = "list"
    /\ last.outcome = "ok"
    /\ Len(last.filters) = 3
    /\ last.filters[1] = LimitOffset(1, 1)
    /\ last.filters[2].type = "BeforeAfter"
    /\ last.filters[3].type = "CollectionFilter"
    /\ Len(last.rows) = 1
    /\ Len(Again("list", NoPage(last.filters), last.kwargs).rows) = 2

HasUnknown(filters) == ~KnownTypes(filters)

\* C15: list, list_and_count and count called with a positional filter that is
\* none of RangeFilter, MembershipFilter, PageFilter fail with the generic
\* repository error, and no query is executed against the session.
C15_UnknownFilter ==
    (IsQuery(last) /\ HasUnknown(last.filters))
    => /\ last.outcome = "StarliteSaqlalchemyError"
       /\ calls = <<>>

\* C16: every engine-level error raised inside a SQL repository operation
\* reaches the caller as ConflictError when it is an integrity violation and
\* as the generic repository error otherwise, chained to the engine error.
C16_EngineErrors ==
    last.engine # ""
    => /\ last.outcome = IF last.engine = "IntegrityError"
                         THEN "ConflictError" ELSE "StarliteSaqlalchemyError"
       /\ last.cause = last.engine

\* A range filter, membership filter or keyword filter of the call names an
\* attribute the model does not have.
BadAttribute(filters, kwargs) ==
    \/ \E i \in 1..Len(filters) :
          /\ filters[i].type \in {"BeforeAfter", "CollectionFilter"}
          /\ ~model_getattr(filters[i].field_name)
    \/ \E k \in DOMAIN kwargs : ~model_getattr(k)

\* C17: SQL list, list_and_count and count called with an equality filter,
\* RangeFilter or MembershipFilter that names an attribute the entity type does
\* not have fail with the generic RepositoryError chained to the original
\* cause, not with a raw attribute error.
C17_BadAttribute ==
    (IsQuery(last) /\ KnownTypes(last.filters) /\ BadAttribute(last.filters, last.kwargs))
    => /\ last.outcome = "StarliteSaqlalchemyError"
       /\ last.cause # ""

\* The keywords of the call, given in order, that name no attribute.
BadKeyword(kwseq) == \E i \in 1..Len(kwseq) : kwseq[i][1] \notin Columns(model_type)
AllEqual(obj, kwseq) == \A i \in 1..Len(kwseq) : GetAttr(obj, kwseq[i][1]) = kwseq[i][2]

\* C18: filter_collection_by_kwargs called with a keyword that names no
\* attribute of the entity fails with a repository error, whatever the
\* collection holds and whatever the other keywords are; on failure the
\* in-memory collection is left unchanged, on success it holds exactly the
\* records whose named attributes all equal the given values.
C18_FilterByKwargs ==
    [][(backing = "mem" /\ last'.op = "filter_collection_by_kwargs")
       => LET kwseq == last'.kwargs
              coll == collection[model_type]
          IN  /\ BadKeyword(kwseq) => last'.outcome = "StarliteSaqlalchemyError"
              /\ last'.outcome # "ok" => collection' = collection
              /\ last'.outcome = "ok" =>
                    /\ DOMAIN collection'[model_type]
                          = {k \in DOMAIN coll : AllEqual(heap[coll[k]], kwseq)}
                    /\ \A k \in DOMAIN collection'[model_type] :
                          collection'[model_type][k] = coll[k]]_vars

CountOf(seq, x) == Len(SelectSeq(seq, LAMBDA c : c = x))

C20_CallOrder ==
    (backing = "sql" /\ last.op \in {"add", "update", "upsert"} /\ last.outcome = "ok")
    => LET attach == IF last.op = "add" THEN "add" ELSE "merge"
           lookup == IF last.op = "update" THEN <<"execute", "expunge">> ELSE <<>>
       IN  /\ calls = lookup \o <<attach, "flush", "refresh", "expunge">>
           /\ CountOf(calls, attach) = 1
           /\ CountOf(calls, "flush") = 1
           /\ CountOf(calls, "refresh") = 1
           /\ CountOf(calls, "commit") = 0

C20_Witness ==
    /\ backing = "sql"
    /\ last.op = "update"
    /\ last.outcome = "ok"
    /\ Len(calls) = 6
    /\ calls[3] = "merge"
    /\ last.val["updated"] = clock

\* The calls a repository operation may make on its session.
SessionCalls == {"add", "merge", "delete", "execute", "flush", "refresh", "expunge"}

\* C21: no operation of the SQL repository (add, get, list, list_and_count,
\* count, update, upsert, delete) commits the session it was constructed
\* with, whether it returns, fails with an error of its own or fails on an
\* error of the engine: the calls it makes on the session are attach,
\* execute, flush, refresh and expunge only.
C21_NoCommit ==
    /\ CountOf(calls, "commit") = 0
    /\ \A i \in 1..Len(calls) : calls[i] \in SessionCalls

C21_Witness ==
    /\ last.op = "upsert"
    /\ last.engine = "OperationalError"
    /\ last.outcome = "StarliteSaqlalchemyError"
    /\ calls = <<"merge", "flush">>

\* C22: the created and updated values of every stored record, in either
\* backing, are values the repository took from the clock at insert or
\* update time: a value the caller wrote on the entity handed to add, update
\* or upsert is never the stored one.
C22_ServerStamps ==
    \A k \in Store :
       /\ RepoGet(k).val["created"] # CallerStamp
       /\ RepoGet(k).val["updated"] # CallerStamp

\* C23: Service.get, Service.delete and Service.update called with an
\* identifier that no stored record has fail with NotFoundError: no other
\* error kind and no successful return.
C23_ServiceNotFound ==
    [][(last'.op \in {"get", "delete", "update"} /\ last'.key \notin Store)
       => last'.outcome = "NotFoundError"]_vars

\* C24: defining a subclass C of Service sets C's identity to
\* "<module of C>.<class name of C>" and makes the identity map of the
\* process return C for it; two definitions of the same declaration, in
\* whatever process and at whatever address, have the same identity; and a
\* service enqueues its background callbacks under the identity of its class.
C24_Identity ==
    [][/\ last'.op = "define" =>
             LET cls == classes'[last'.proc][last'.cls]
             IN  /\ cls.id = cls.module \o "." \o cls.name
                 /\ last'.id = cls.id
                 /\ cls.id \in DOMAIN services'[last'.proc]
                 /\ services'[last'.proc][cls.id] = last'.cls
       /\ \A p \in Procs, q \in Procs :
             \A c \in 1..Len(classes'[p]), d \in 1..Len(classes'[q]) :
                (/\ classes'[p][c].module = classes'[q][d].module
                 /\ classes'[p][c].scope = classes'[q][d].scope
                 /\ classes'[p][c].name = classes'[q][d].name)
                => classes'[p][c].id = classes'[q][d].id
       /\ last'.op = "enqueue" =>
             /\ queue' = Append(queue, queue'[Len(queue')])
             /\ queue'[Len(queue')].service_type_id = classes[last'.proc][last'.cls].id
      ]_<<vars, pvars>>

C24_Witness ==
    /\ last.op = "enqueue"
    /\ last.proc = 1
    /\ Len(classes[1]) = 2
    /\ \E d \in 1..Len(classes[2]) :
          /\ classes[2][d].id = last.id
          /\ classes[2][d].addr # classes[1][last.cls].addr
          /\ classes[2][d].scope = classes[1][last.cls].scope

\* C25: dispatching a background callback whose service_type_identity is
\* not a key of the identity map of the dispatching process fails with a
\* lookup error (KeyError); no service instance is constructed and no
\* service method is invoked for that dispatch.
C25_UnknownIdentity ==
    [][(last'.op = "dispatch" /\ last'.id \notin DOMAIN services[last'.proc])
       => /\ last'.outcome = "KeyError"
          /\ last'.constructed = 0
          /\ last'.invoked = 0
          /\ queue' = Tail(queue)
      ]_<<vars, pvars>>

C25_Witness ==
    /\ last.op = "dispatch"
    /\ last.outcome = "KeyError"
    /\ last.id \notin DOMAIN services[last.proc]
    /\ \E q \in Procs : last.id \in DOMAIN services[q]

\* C26: the service identity map only grows, one entry per service type at
\* its definition: no step removes an entry, and an identity once mapped
\* to a service type stays mapped to that same type.
C26_MapGrows ==
    [][\A p \in Procs :
          /\ \A id \in DOMAIN services[p] :
                /\ id \in DOMAIN services'[p]
                /\ services'[p][id] = services[p][id]
          /\ last'.op = "define" =>
                \A c \in 1..Len(classes'[p]), d \in 1..Len(classes'[p]) :
                   c # d => classes'[p][c].id # classes'[p][d].id
      ]_<<vars, pvars>>

\* The table of repository class t: which entity each key holds, and what
\* that entity's attributes are.
TableAt(tps, dcts, hp, t) ==
    LET d == dcts[CollectionOf(tps, t)]
    IN  [k \in DOMAIN d |-> <<d[k], hp[d[k]].d>>]

\* C27: each parametrization of the in-memory repository owns an isolated
\* table: add, update, upsert, delete, seed_collection and clear_collection
\* on the repository class for entity type A leave the table of every
\* repository class for another entity type B as it was.
C27_Isolated ==
    [][(last'.op \in {"add", "update", "upsert", "delete", "seed_collection",
                      "clear_collection"})
       => \A u \in 1..Len(types) :
             types[u].model_type # types[last'.type].model_type
             => TableAt(types', dicts', heap', u) = TableAt(types, dicts, heap, u)
      ]_<<vars, pvars>>

C27_Witness ==
    /\ last.op = "clear_collection"
    /\ types[last.type].parent # 0
    /\ DOMAIN TableAt(types, dicts, heap, last.type) = {}
    /\ DOMAIN TableAt(types, dicts, heap, types[last.type].parent) # {}
    /\ \E u \in 1..Len(types) :
          /\ types[u].model_type # types[last.type].model_type
          /\ 1 \in DOMAIN TableAt(types, dicts, heap, u)

FieldsOf(e) == {e[i] : i \in 1..Len(e)}
Derived == last.op = "FromMapped" /\ last.outcome = "ok"

\* C28 as stated: a mapped field is in the READ schema exactly when it is
\* not marked PRIVATE or WRITE_ONLY, and in the WRITE schema exactly when it
\* is not marked PRIVATE or READ_ONLY and not excluded.
C28_AsStated ==
    Derived =>
       \A f \in FieldsOf(entity) :
          f.mapped =>
             (f.name \in last.fields <=>
                IF last.purpose = "read"
                THEN f.mark \notin {"private", "write-only"}
                ELSE f.mark \notin {"private", "read-only"} /\ f.name \notin last.exclude)

\* C28, amended: a mapped field is in the READ schema exactly when it is not
\* marked PRIVATE or WRITE_ONLY and not excluded, and in the WRITE schema
\* exactly when it is not marked PRIVATE or READ_ONLY and not excluded; a
\* PRIVATE field is in no schema; without exclusions Author's WRITE schema
\* has exactly {name, dob} and its READ schema {name, dob, id, created,
\* updated}.
C28_FieldSets ==
    Derived =>
       /\ \A f \in FieldsOf(entity) :
             /\ f.mapped =>
                   (f.name \in last.fields <=>
                      /\ f.name \notin last.exclude
                      /\ IF last.purpose = "read"
                         THEN f.mark \notin {"private", "write-only"}
                         ELSE f.mark \notin {"private", "read-only"})
             /\ f.mark = "private" => f.name \notin last.fields
       /\ (entity = Author /\ last.exclude = {}) =>
             last.fields = IF last.purpose = "write" THEN {"name", "dob"}
                           ELSE {"name", "dob", "id", "created", "updated"}

C28_Witness ==
    /\ Derived
    /\ entity = Author
    /\ last.purpose = "read"
    /\ last.exclude = {"name"}
    /\ last.fields = {"dob", "id", "created", "updated"}
    /\ <<"write", {}>> \in DOMAIN schemas
    /\ schemas[<<"write", {}>>].fields = {"name", "dob"}

\* C29: a field named in the exclusion set is absent from the derived
\* schema for READ as for WRITE, and every other field is in the schema
\* exactly when it is without the exclusion set.
C29_Excluded ==
    Derived =>
       /\ last.fields \cap last.exclude = {}
       /\ \A f \in FieldsOf(entity) :
             f.name \notin last.exclude =>
                (f.name \in last.fields <=> FieldInSchema(f, last.purpose, {}))

C29_Witness ==
    /\ Derived
    /\ last.purpose = "read"
    /\ last.exclude = {"id", "field"}
    /\ \E i \in 1..Len(entity) :
          entity[i].name = "field" /\ entity[i].mapped /\ entity[i].mark = "none"
    /\ last.fields = {}

\* C30: deriving a WRITE schema for an entity type with an included field
\* whose default the database must evaluate fails with a definition error
\* (ValueError) and leaves no schema to parse with; in a derived WRITE
\* schema a scalar default is kept with its value and a zero-argument
\* factory is kept as a factory.
C30_Defaults ==
    (last.op = "FromMapped" /\ last.purpose = "write") =>
       LET inc == {f \in FieldsOf(entity) : FieldInSchema(f, "write", last.exclude)} IN
       /\ (\E f \in inc : f.default.kind = "server") =>
             /\ last.outcome = "ValueError"
             /\ last.fields = {}
             /\ <<"write", last.exclude>> \notin DOMAIN schemas
       /\ last.outcome = "ok" =>
             \A f \in inc :
                f.default.kind \in {"scalar", "factory"}
                => <<f.name, f.default>> \in last.defaults

C30_Witness ==
    /\ last.op = "FromMapped"
    /\ last.purpose = "write"
    /\ last.outcome = "ValueError"
    /\ last.exclude = {"id"}
    /\ \E i \in 1..Len(entity) :
          entity[i].default.kind = "server" /\ entity[i].mark = "write-only"
    /\ <<"read", {"id"}>> \in DOMAIN schemas

\* C31: deriving a schema from an entity type supplied without a purpose
\* annotation fails with a definition error (ValueError); no schema is
\* produced and none is added to the derived schemas.
C31_NoPurpose ==
    [][(last'.op = "FromMapped" /\ last'.purpose = "missing")
       => /\ last'.outcome = "ValueError"
          /\ last'.fields = {}
          /\ schemas' = schemas
          /\ \A key \in DOMAIN schemas' : key[1] # "missing"
      ]_<<vars, pvars>>

C31_Witness ==
    /\ last.op = "FromMapped"
    /\ last.purpose = "missing"
    /\ last.outcome = "ValueError"
    /\ entity = Author
    /\ <<"read", {}>> \in DOMAIN schemas

\* C32: a NotFoundError raised by the existence check inside SQL update or
\* delete reaches the caller as NotFoundError, chained from nothing; the
\* engine-error wrapper converts engine errors only, once (the error the
\* caller sees is chained from the engine error itself, also when it crossed
\* the with block of get and then that of update or delete), and hands on
\* NotFoundError, ConflictError, the generic repository error and any other
\* exception as they are.
C32_PassThrough ==
    [][/\ (last'.op \in {"update", "delete"} /\ last'.engine = ""
             /\ Target(last', heap) \notin Store)
          => (last'.outcome = "NotFoundError" /\ last'.cause = "")
       /\ (last'.engine # "" /\ InWith(last'.op))
          => /\ last'.outcome = IF last'.engine = "IntegrityError" THEN "ConflictError"
                                 ELSE "StarliteSaqlalchemyError"
             /\ last'.cause = last'.engine
       /\ \A e \in {"NotFoundError", "ConflictError", "StarliteSaqlalchemyError",
                     "AttributeError", "KeyError"} :
             wrap_sqlalchemy_exception(e) = [outcome |-> e, cause |-> ""]
      ]_vars

C32_Witness ==
    /\ last.op = "update"
    /\ last.outcome = "NotFoundError"
    /\ last.cause = ""
    /\ calls = <<"execute">>
    /\ DOMAIN table[model_type] # {}
    /\ get_id_attribute_value(heap[last.obj]) # None

\* The `updated` values of the stored records of the in-memory table, by key.
MemUpdated(coll, hp) == [k \in DOMAIN coll |-> GetAttr(hp[coll[k]], "updated")]

\* C33: in the in-memory backing a successful add of an entity with audit
\* columns leaves created = updated = the instant of the call, a successful
\* update (and an upsert, whichever branch it takes) leaves updated = the
\* instant of the call, whatever the caller wrote into them; no stored record
\* is stamped later than the clock, and no step of add, update, upsert, get,
\* delete or the clock lowers the stored `updated` of a key.
C33_MemStamps ==
    [][backing = "mem" =>
        /\ (last'.op = "add" /\ last'.outcome = "ok")
           => /\ GetAttr(heap'[last'.ret], "created") = clock
              /\ GetAttr(heap'[last'.ret], "updated") = clock
              /\ collection'["AuditBase"][get_id_attribute_value(heap'[last'.ret])] = last'.ret
        /\ (last'.op \in {"update", "upsert"} /\ last'.outcome = "ok")
           => /\ GetAttr(heap'[last'.ret], "updated") = clock
              /\ get_id_attribute_value(heap[last'.obj]) \in DOMAIN collection'["AuditBase"]
              /\ collection'["AuditBase"][get_id_attribute_value(heap[last'.obj])] = last'.ret
        /\ \A k \in DOMAIN collection'["AuditBase"] :
              /\ MemUpdated(collection'["AuditBase"], heap')[k] \in 1..clock'
              /\ k \in DOMAIN collection["AuditBase"]
                 => MemUpdated(collection'["AuditBase"], heap')[k]
                      >= MemUpdated(collection["AuditBase"], heap)[k]
      ]_vars

C33_Witness ==
    /\ backing = "mem"
    /\ last.op = "update"
    /\ last.outcome = "ok"
    /\ clock = 2
    /\ last.ret = 1
    /\ last.obj = 2
    /\ GetAttr(heap[1], "updated") = 2
    /\ GetAttr(heap[1], "created") = CallerStamp

Tables ==
    {CollectionOf(types, t) : t \in 1..Len(types)} \cup {repos[r].own : r \in 1..Len(repos)}

\* C35: in every in-memory table each key is the identifier of the entity
\* stored under it, and no entity is stored under two keys, after any
\* sequence of seed_collection, add, update, upsert, delete and
\* filter_collection_by_kwargs.
C35_KeyIsId ==
    \A d \in Tables :
       /\ \A k \in DOMAIN dicts[d] : get_id_attribute_value(heap[dicts[d][k]]) = k
       /\ \A j, k \in DOMAIN dicts[d] : dicts[d][j] = dicts[d][k] => j = k

\* C36: every record stored in the in-memory table has a non-null
\* identifier, after any sequence of add, update, upsert and delete by a
\* caller whose entities come with or without an identifier.
C36_IdNotNull ==
    backing = "mem" =>
       \A k \in DOMAIN collection[model_type] :
          get_id_attribute_value(heap[collection[model_type][k]]) # None

\* C37: SQL update never creates a record: the part of update that follows
\* its existence check adds no identifier to the store, and when another
\* caller with a unit of work of its own has deleted the identifier between
\* the check and the merge, update fails instead of inserting.
C37_UpdateNeverInserts ==
    [][(txn.pc = "got" /\ txn'.pc = "idle")
       => LET id == get_id_attribute_value(heap[txn.obj]) IN
          /\ DOMAIN table'[model_type] = DOMAIN table[model_type]
          /\ id \notin DOMAIN table[model_type] => last'.outcome # "ok"
      ]_<<vars, pvars>>

\* C38: when the engine raises in the flush or the refresh of SQL add,
\* update or upsert, the call ends in ConflictError or the generic
\* repository error and the session holds what it held before the call: the
\* entity of the failed call is not attached to it.
C38_FailedWriteDetached ==
    [][(/\ last'.engine # ""
        /\ last'.op \in {"add", "update", "upsert"}
        /\ calls'[Len(calls')] \in {"flush", "refresh"})
       => /\ last'.outcome \in {"ConflictError", "StarliteSaqlalchemyError"}
          /\ attached' = attached
          /\ last'.obj \notin attached'
      ]_vars

\* What get(k) and list() answer through instance r of repository class t.
GetVia(tps, rps, dcts, hp, t, r, k) ==
    LET out == MemGetOp(dcts[SelfCollection(tps, rps, t, r)], hp, k)
    IN  <<out.outcome, out.ret>>
ListVia(tps, rps, dcts, hp, t, r) ==
    MemListOp(dcts[SelfCollection(tps, rps, t, r)], hp, <<>>, EmptyMap).rows

\* C39: all instances of one in-memory repository type observe one table:
\* after an add, update, upsert or delete through one instance, get of any
\* key and list answer through every other instance of the type what they
\* answer through that one, also when filter_collection_by_kwargs has been
\* called on one of them before.
C39_OneTable ==
    [][(last'.op \in {"add", "update", "upsert", "delete"} /\ last'.outcome = "ok")
       => \A r \in InstancesOf(last'.type) :
             /\ \A k \in Keys' :
                   GetVia(types', repos', dicts', heap', last'.type, r, k)
                     = GetVia(types', repos', dicts', heap', last'.type, last'.inst, k)
             /\ ListVia(types', repos', dicts', heap', last'.type, r)
                  = ListVia(types', repos', dicts', heap', last'.type, last'.inst)
      ]_<<vars, pvars>>

====
